---- MODULE Spec2Model ----
(***************************************************************************)
(* gSwap: the constant-product pool (gPool.sol), the factory, the data     *)
(* provider (mockServer.ts) and the arbitrage agent, as state machines.    *)
(***************************************************************************)
EXTENDS Integers, Sequences, FiniteSets, TLC

VARIABLES
    pool,      \* the gPool contract's storage
    now,       \* block.timestamp
    call,      \* the mutating pool call in progress (its frame), or op = "none"
    ret,       \* outcome of the last finished top-level pool call
    nested,    \* outcome of the last call made into the pool from inside a token call
    world,     \* the amounts callers use and the token supply that exists
    quotes,    \* the last two getAmountOut view calls and their results
    sim,       \* route simulator: mock POOLS, on-chain pools, route, progress
    factory,   \* the gSwapFactory contract's storage, the pools it deployed, its last call
    disc,      \* route discovery: the pool set queried and the last two answers
    agent,     \* the arbitrage agent: configuration, status, executor, scan in progress
    oracle,    \* the LLM analyzer: the last response it was given and the decision it returned
    loop,      \* the agent's polling loop: isRunning, timers, start() calls and scans in flight
    erc20,     \* the two MockERC20 tokens of a pool: the balances of the callers and of the pool
    indexer    \* the indexer: the chain's event log, the batches processed, the store

vars == <<pool, now, call, ret, nested, world, quotes, sim, factory, disc, agent, oracle, loop,
          erc20, indexer>>

\* the components beside the pool, the quote calls and the route simulator
elsewhere == <<factory, disc, agent, oracle, loop, erc20, indexer>>

\* the pool, the quote calls and the route simulator
poolSide == <<pool, now, call, ret, nested, world, quotes, sim>>

----------------------------------------------------------------------------
(* Bounds of the model *)

MaxAmt == 2          \* callers' amounts in the small world are 0..MaxAmt
MaxReserve == 3      \* token supply per token in the small world
MaxExample == 4000   \* token supply per token in the world of the examples
MaxExampleCalls == 2 \* pool operations carried out in the world of the examples
MaxTime == 1         \* block.timestamp ranges over 0..MaxTime
MaxToken == 3        \* token addresses handed to the factory are 0..MaxToken (0: the zero address)
MaxPools == 2        \* the factory is asked for new pools while it holds fewer than MaxPools
MaxHops == 5         \* route discovery is asked with maxHops in 1..MaxHops
MaxCycles == 1       \* scans and manual executions the agent is asked for
MaxProduct == 200000 \* swaps are offered while amountIn * reserveOut * 10000 fits TLC's 32-bit integers

Users == {"u1", "u2"}
Token0 == "T0"
Token1 == "T1"
OtherToken == "TX"
Fees == {0, 30, 1000}

Min(a, b) == IF a < b THEN a ELSE b

RECURSIVE SumOver(_, _)
SumOver(f, S) ==
    IF S = {} THEN 0
    ELSE LET x == CHOOSE y \in S : TRUE IN f[x] + SumOver(f, S \ {x})

----------------------------------------------------------------------------
(* Results of contract calls: a revert carries the error string and leaves *)
(* the storage it was given; a return carries the new storage, the return  *)
(* values and the events emitted.                                          *)

Revert(s, e) == [ok |-> FALSE, err |-> e, s |-> s, val |-> <<>>, events |-> <<>>]
Return(s, v, ev) == [ok |-> TRUE, err |-> "", s |-> s, val |-> v, events |-> ev]

----------------------------------------------------------------------------
(* gPool.sol *)

\* modifier lock, before the body
lockEnterNoCheck(s) == Return([s EXCEPT !.locked = TRUE], <<>>, <<>>)

lockEnter(s) ==
    IF s.locked THEN Revert(s, "gPool: REENTRANT")
    ELSE Return([s EXCEPT !.locked = TRUE], <<>>, <<>>)

\* a modifier that does not release the lock after the body
lockExitKeepsLock(s) == s

\* modifier lock, after the body
lockExit(s) == [s EXCEPT !.locked = FALSE]

getAmountOutNoFeeInDenominator(s, amountIn, reserveIn, reserveOut) ==
    IF ~(amountIn > 0) THEN Revert(s, "gPool: INSUFFICIENT_INPUT")
    ELSE IF ~(reserveIn > 0 /\ reserveOut > 0) THEN Revert(s, "gPool: INSUFFICIENT_LIQUIDITY")
    ELSE LET amountInWithFee == amountIn * (10000 - s.swapFee)
             numerator == amountInWithFee * reserveOut
             denominator == reserveIn * 10000
         IN Return(s, <<numerator \div denominator>>, <<>>)

getAmountOut(s, amountIn, reserveIn, reserveOut) ==
    IF ~(amountIn > 0) THEN Revert(s, "gPool: INSUFFICIENT_INPUT")
    ELSE IF ~(reserveIn > 0 /\ reserveOut > 0) THEN Revert(s, "gPool: INSUFFICIENT_LIQUIDITY")
    ELSE LET amountInWithFee == amountIn * (10000 - s.swapFee)
             numerator == amountInWithFee * reserveOut
             denominator == (reserveIn * 10000) + amountInWithFee
         IN Return(s, <<numerator \div denominator>>, <<>>)

RECURSIVE sqrtLoop(_, _, _)
sqrtLoop(y, x, z) ==
    IF x < z THEN sqrtLoop(y, (y \div x + x) \div 2, x) ELSE z

_sqrt(y) ==
    IF y = 0 THEN 0
    ELSE IF y > 3 THEN sqrtLoop(y, y \div 2 + 1, y)
    ELSE 1

\* a pool as the factory leaves it: constructed, then initialize(...)
initialize(_token0, _token1, _swapFee) ==
    [token0 |-> _token0, token1 |-> _token1, reserve0 |-> 0, reserve1 |-> 0,
     swapFee |-> _swapFee, blockTimestampLast |-> 0, locked |-> FALSE,
     totalSupply |-> 0, balanceOf |-> [u \in Users |-> 0]]

Sync(r0, r1) == [name |-> "Sync", a |-> r0, b |-> r1, c |-> 0]
Mint(a0, a1, lp) == [name |-> "Mint", a |-> a0, b |-> a1, c |-> lp]
Burn(a0, a1, lp) == [name |-> "Burn", a |-> a0, b |-> a1, c |-> lp]
Swap(amountIn, amountOut) == [name |-> "Swap", a |-> amountIn, b |-> amountOut, c |-> 0]

_update(s, _reserve0, _reserve1, timestamp) ==
    [s EXCEPT !.reserve0 = _reserve0,
              !.reserve1 = _reserve1,
              !.blockTimestampLast = timestamp]   \* uint32(timestamp % 2**32), timestamps here are below 2**32

\* addLiquidity up to its external calls: lock, require(amounts > 0)
addLiquidity_pre(s, amount0, amount1) ==
    LET l == lockEnter(s) IN
    IF ~l.ok THEN l
    ELSE IF ~(amount0 > 0 /\ amount1 > 0) THEN Revert(s, "gPool: ZERO_AMOUNT")
    ELSE l

lpTokensRoundedUp(s, amount0, amount1) ==
    IF s.totalSupply = 0 THEN _sqrt(amount0 * amount1)
    ELSE LET lp0 == (amount0 * s.totalSupply + s.reserve0 - 1) \div s.reserve0
             lp1 == (amount1 * s.totalSupply + s.reserve1 - 1) \div s.reserve1
         IN IF lp0 < lp1 THEN lp0 ELSE lp1

lpTokensLargerSide(s, amount0, amount1) ==
    IF s.totalSupply = 0 THEN _sqrt(amount0 * amount1)
    ELSE LET lp0 == (amount0 * s.totalSupply) \div s.reserve0
             lp1 == (amount1 * s.totalSupply) \div s.reserve1
         IN IF lp0 > lp1 THEN lp0 ELSE lp1

lpTokensFor(s, amount0, amount1) ==
    IF s.totalSupply = 0 THEN _sqrt(amount0 * amount1)
    ELSE LET lp0 == (amount0 * s.totalSupply) \div s.reserve0
             lp1 == (amount1 * s.totalSupply) \div s.reserve1
         IN IF lp0 < lp1 THEN lp0 ELSE lp1

\* addLiquidity after both transferFrom calls have returned
addLiquidity_postMintOnly(s, sender, amount0, amount1, timestamp) ==
    IF s.totalSupply # 0 /\ (s.reserve0 = 0 \/ s.reserve1 = 0) THEN Revert(s, "Panic(0x12)") ELSE
    LET lpTokens == lpTokensFor(s, amount0, amount1) IN
    IF ~(lpTokens > 0) THEN Revert(s, "gPool: INSUFFICIENT_LIQUIDITY_MINTED")
    ELSE LET s1 == [s EXCEPT !.balanceOf[sender] = @ + lpTokens]
             s2 == _update(s1, s1.reserve0 + amount0, s1.reserve1 + amount1, timestamp)
         IN Return(lockExit(s2), <<lpTokens>>,
                   <<Sync(s2.reserve0, s2.reserve1), Mint(amount0, amount1, lpTokens)>>)

addLiquidity_post(s, sender, amount0, amount1, timestamp) ==
    IF s.totalSupply # 0 /\ (s.reserve0 = 0 \/ s.reserve1 = 0) THEN Revert(s, "Panic(0x12)") ELSE
    LET lpTokens == lpTokensFor(s, amount0, amount1) IN
    IF ~(lpTokens > 0) THEN Revert(s, "gPool: INSUFFICIENT_LIQUIDITY_MINTED")
    ELSE LET s1 == [s EXCEPT !.balanceOf[sender] = @ + lpTokens,
                             !.totalSupply = @ + lpTokens]
             s2 == _update(s1, s1.reserve0 + amount0, s1.reserve1 + amount1, timestamp)
         IN Return(lockExit(s2), <<lpTokens>>,
                   <<Sync(s2.reserve0, s2.reserve1), Mint(amount0, amount1, lpTokens)>>)

\* removeLiquidity up to its external calls: lock, requires, amounts, burn
removeLiquidity_pre(s, sender, lpTokens) ==
    LET l == lockEnter(s) IN
    IF ~l.ok THEN l
    ELSE IF ~(lpTokens > 0) THEN Revert(s, "gPool: ZERO_AMOUNT")
    ELSE IF ~(s.balanceOf[sender] >= lpTokens) THEN Revert(s, "gPool: INSUFFICIENT_LP")
    ELSE IF s.totalSupply = 0 THEN Revert(s, "Panic(0x12)")
    ELSE LET amount0 == (lpTokens * s.reserve0) \div s.totalSupply
             amount1 == (lpTokens * s.reserve1) \div s.totalSupply
         IN IF ~(amount0 > 0 /\ amount1 > 0)
            THEN Revert(s, "gPool: INSUFFICIENT_LIQUIDITY_BURNED")
            ELSE Return([l.s EXCEPT !.balanceOf[sender] = @ - lpTokens,
                                    !.totalSupply = @ - lpTokens],
                        <<amount0, amount1>>, <<>>)

\* removeLiquidity after both transfer calls have returned
removeLiquidity_postSyncBeforeUpdate(s, lpTokens, amount0, amount1, timestamp) ==
    IF s.reserve0 < amount0 \/ s.reserve1 < amount1
    THEN Revert(s, "Panic(0x11)")
    ELSE LET s2 == _update(s, s.reserve0 - amount0, s.reserve1 - amount1, timestamp)
         IN Return(lockExit(s2), <<amount0, amount1>>,
                   <<Sync(s.reserve0, s.reserve1), Burn(amount0, amount1, lpTokens)>>)

removeLiquidity_post(s, lpTokens, amount0, amount1, timestamp) ==
    IF s.reserve0 < amount0 \/ s.reserve1 < amount1
    THEN Revert(s, "Panic(0x11)")
    ELSE LET s2 == _update(s, s.reserve0 - amount0, s.reserve1 - amount1, timestamp)
         IN Return(lockExit(s2), <<amount0, amount1>>,
                   <<Sync(s2.reserve0, s2.reserve1), Burn(amount0, amount1, lpTokens)>>)

\* swap up to its external calls: lock, requires, quote, slippage check
swap_pre(s, tokenIn, amountIn, minAmountOut, deadline, timestamp) ==
    LET l == lockEnter(s) IN
    IF ~l.ok THEN l
    ELSE IF ~(deadline >= timestamp) THEN Revert(s, "gPool: EXPIRED")
    ELSE IF ~(amountIn > 0) THEN Revert(s, "gPool: INSUFFICIENT_INPUT")
    ELSE IF ~(tokenIn = s.token0 \/ tokenIn = s.token1) THEN Revert(s, "gPool: INVALID_TOKEN")
    ELSE LET reserveIn == IF tokenIn = s.token0 THEN s.reserve0 ELSE s.reserve1
             reserveOut == IF tokenIn = s.token0 THEN s.reserve1 ELSE s.reserve0
         IN IF ~(reserveIn > 0 /\ reserveOut > 0)
            THEN Revert(s, "gPool: INSUFFICIENT_LIQUIDITY")
            ELSE LET q == getAmountOut(s, amountIn, reserveIn, reserveOut) IN
                 IF ~q.ok THEN q
                 ELSE IF ~(q.val[1] >= minAmountOut)
                      THEN Revert(s, "gPool: INSUFFICIENT_OUTPUT")
                      ELSE Return(l.s, q.val, <<>>)

\* swap after transferFrom(tokenIn) and transfer(tokenOut) have returned
swap_post(s, tokenIn, amountIn, amountOut, timestamp) ==
    IF tokenIn = s.token0
    THEN IF s.reserve1 < amountOut THEN Revert(s, "Panic(0x11)")
         ELSE LET s2 == _update(s, s.reserve0 + amountIn, s.reserve1 - amountOut, timestamp)
              IN Return(lockExit(s2), <<amountOut>>,
                        <<Sync(s2.reserve0, s2.reserve1), Swap(amountIn, amountOut)>>)
    ELSE IF s.reserve0 < amountOut THEN Revert(s, "Panic(0x11)")
         ELSE LET s2 == _update(s, s.reserve1 + amountIn, s.reserve0 - amountOut, timestamp)
              IN Return(lockExit(s2), <<amountOut>>,
                        <<Sync(s2.reserve0, s2.reserve1), Swap(amountIn, amountOut)>>)

\* The three operations run in one piece (every token call succeeding and
\* calling nothing back); a revert anywhere restores the storage of entry.
addLiquidity(s, sender, amount0, amount1, timestamp) ==
    LET p == addLiquidity_pre(s, amount0, amount1) IN
    IF ~p.ok THEN Revert(s, p.err)
    ELSE LET q == addLiquidity_post(p.s, sender, amount0, amount1, timestamp)
         IN IF q.ok THEN q ELSE Revert(s, q.err)

removeLiquidity(s, sender, lpTokens, timestamp) ==
    LET p == removeLiquidity_pre(s, sender, lpTokens) IN
    IF ~p.ok THEN Revert(s, p.err)
    ELSE LET q == removeLiquidity_post(p.s, lpTokens, p.val[1], p.val[2], timestamp)
         IN IF q.ok THEN q ELSE Revert(s, q.err)

swap(s, tokenIn, amountIn, minAmountOut, deadline, timestamp) ==
    LET p == swap_pre(s, tokenIn, amountIn, minAmountOut, deadline, timestamp) IN
    IF ~p.ok THEN Revert(s, p.err)
    ELSE LET q == swap_post(p.s, tokenIn, amountIn, p.val[1], timestamp)
         IN IF q.ok THEN q ELSE Revert(s, q.err)

----------------------------------------------------------------------------
(* The pool and its callers *)

NoPrev == [op |-> "none", amount0 |-> 0, amount1 |-> 0, lpTokens |-> 0, supplyBefore |-> 0]
NoCall == [op |-> "none", sender |-> "", tokenIn |-> "", arg0 |-> 0, arg1 |-> 0,
           out0 |-> 0, out1 |-> 0, pc |-> 0, snap |-> <<>>, prev |-> NoPrev]
NoRet == [op |-> "none", sender |-> "", tokenIn |-> "", arg0 |-> 0, arg1 |-> 0,
          ok |-> FALSE, err |-> "", val |-> <<>>, events |-> <<>>, pre |-> <<>>,
          prev |-> NoPrev]
NoNested == [op |-> "none", ok |-> FALSE, err |-> ""]

\* What a finished call leaves for its caller to see: the outcome, and for a
\* call that went through also its arguments and the storage it started from.
Outcome(op, sender, tokenIn, arg0, arg1, r, pre, prev) ==
    IF r.ok
    THEN [op |-> op, sender |-> sender, tokenIn |-> tokenIn, arg0 |-> arg0, arg1 |-> arg1,
          ok |-> TRUE, err |-> "", val |-> r.val, events |-> r.events, pre |-> pre,
          prev |-> prev]
    ELSE [NoRet EXCEPT !.op = op, !.err = r.err, !.pre = pre]

\* The callers' inputs and means: the amounts they deposit, swap and ask for
\* at least, the supply of each token (cap) and the operations still carried
\* out (budget; -1: any number). SmallWorld exercises every path on small
\* numbers, ExampleWorld holds the numbers of the documented examples.
SmallWorld == [amounts |-> 0..MaxAmt, swapAmounts |-> 0..MaxAmt, minOuts |-> {0, 1},
               fees |-> Fees, cap |-> MaxReserve, budget |-> -1]
ExampleWorld == [amounts |-> {1000, 4000}, swapAmounts |-> {100}, minOuts |-> {90, 91},
                 fees |-> {30}, cap |-> MaxExample, budget |-> MaxExampleCalls]
Worlds == {SmallWorld, ExampleWorld}

\* arguments of the calls made from inside a token call
NestedAmounts == {0, 1}
NestedTokens == {Token0, Token1}


PoolInit ==
    /\ world \in Worlds
    /\ pool \in {initialize(Token0, Token1, fee) : fee \in world.fees}
    /\ now = 0
    /\ call = NoCall
    /\ ret = NoRet
    /\ nested = NoNested

\* the share amounts a caller passes to removeLiquidity
Shares(sender) == world.amounts \cup {pool.balanceOf[sender], pool.balanceOf[sender] + 1}

\* the deposit that the same caller has just completed, if the last finished
\* call was one
JustDeposited(op, sender) ==
    IF op = "removeLiquidity" /\ ret.op = "addLiquidity" /\ ret.ok /\ ret.sender = sender
    THEN [op |-> "addLiquidity", amount0 |-> ret.arg0, amount1 |-> ret.arg1,
          lpTokens |-> ret.val[1], supplyBefore |-> ret.pre.totalSupply]
    ELSE NoPrev

\* A top-level call either reverts in its checks (storage as before) or
\* reaches its first token call with the frame recorded.
Enter(op, sender, tokenIn, arg0, arg1, p) ==
    IF p.ok
    THEN /\ world.budget # 0
         /\ world' = [world EXCEPT !.budget = IF @ > 0 THEN @ - 1 ELSE @]
         /\ pool' = p.s
         /\ call' = [op |-> op, sender |-> sender, tokenIn |-> tokenIn,
                     arg0 |-> arg0, arg1 |-> arg1,
                     out0 |-> IF Len(p.val) >= 1 THEN p.val[1] ELSE 0,
                     out1 |-> IF Len(p.val) >= 2 THEN p.val[2] ELSE 0,
                     pc |-> 1, snap |-> pool, prev |-> JustDeposited(op, sender)]
         /\ ret' = NoRet
    ELSE /\ pool' = pool
         /\ call' = NoCall
         /\ ret' = Outcome(op, sender, tokenIn, arg0, arg1, p, pool, NoPrev)
         /\ world' = world

\* the quote of such a swap stays within TLC's 32-bit integers
QuoteFits(s, tokenIn, amountIn) ==
    amountIn * (IF tokenIn = s.token0 THEN s.reserve1 ELSE s.reserve0) <= MaxProduct

CallAddLiquidity(sender, amount0, amount1) ==
    /\ call.op = "none"
    /\ pool.reserve0 + amount0 <= world.cap
    /\ pool.reserve1 + amount1 <= world.cap
    /\ Enter("addLiquidity", sender, "", amount0, amount1,
             addLiquidity_pre(pool, amount0, amount1))
    /\ nested' = NoNested
    /\ UNCHANGED <<now, quotes, sim, elsewhere>>

CallRemoveLiquidity(sender, lpTokens) ==
    /\ call.op = "none"
    /\ Enter("removeLiquidity", sender, "", lpTokens, 0,
             removeLiquidity_pre(pool, sender, lpTokens))
    /\ nested' = NoNested
    /\ UNCHANGED <<now, quotes, sim, elsewhere>>

CallSwap(sender, tokenIn, amountIn, minAmountOut, deadline) ==
    /\ call.op = "none"
    /\ (IF tokenIn = pool.token0 THEN pool.reserve0 ELSE pool.reserve1) + amountIn <= world.cap
    /\ QuoteFits(pool, tokenIn, amountIn)
    /\ Enter("swap", sender, tokenIn, amountIn, minAmountOut,
             swap_pre(pool, tokenIn, amountIn, minAmountOut, deadline, now))
    /\ nested' = NoNested
    /\ UNCHANGED <<now, quotes, sim, elsewhere>>

\* the part of the operation in progress that follows its token calls
Post(c, s) ==
    IF c.op = "addLiquidity" THEN addLiquidity_post(s, c.sender, c.arg0, c.arg1, now)
    ELSE IF c.op = "removeLiquidity" THEN removeLiquidity_post(s, c.arg0, c.out0, c.out1, now)
    ELSE swap_post(s, c.tokenIn, c.arg0, c.out0, now)

Finished(c, r) == Outcome(c.op, c.sender, c.tokenIn, c.arg0, c.arg1, r, c.snap, c.prev)

\* _transfer / _transferFrom: the token call returned success
TokenCallReturns ==
    /\ call.op # "none"
    /\ IF call.pc = 1
       THEN /\ call' = [call EXCEPT !.pc = 2]
            /\ UNCHANGED <<pool, ret>>
       ELSE LET q == Post(call, pool) IN
            /\ call' = NoCall
            /\ pool' = IF q.ok THEN q.s ELSE call.snap
            /\ ret' = Finished(call, q)
    /\ nested' = NoNested
    /\ UNCHANGED <<now, world, quotes, sim, elsewhere>>

transferError(c) ==
    IF c.op = "removeLiquidity" \/ (c.op = "swap" /\ c.pc = 2)
    THEN "gPool: TRANSFER_FAILED" ELSE "gPool: TRANSFER_FROM_FAILED"

\* _transfer / _transferFrom: the token call failed or returned false; the
\* require reverts the whole operation.
TokenCallFailsKeepsStorage ==
    /\ call.op # "none"
    /\ pool' = lockExit(pool)
    /\ ret' = Finished(call, Revert(call.snap, transferError(call)))
    /\ call' = NoCall
    /\ nested' = NoNested
    /\ UNCHANGED <<now, world, quotes, sim, elsewhere>>

TokenCallFails ==
    /\ call.op # "none"
    /\ pool' = call.snap
    /\ ret' = Finished(call, Revert(call.snap, transferError(call)))
    /\ call' = NoCall
    /\ nested' = NoNested
    /\ UNCHANGED <<now, world, quotes, sim, elsewhere>>

\* While a token call is running, the token (or anything it calls) calls
\* back into the pool.
Nest(op, r) ==
    /\ call.op # "none"
    /\ pool' = r.s
    /\ nested' = [op |-> op, ok |-> r.ok, err |-> r.err]
    /\ UNCHANGED <<now, call, ret, world, quotes, sim, elsewhere>>

NestedAddLiquidity(sender, amount0, amount1) ==
    Nest("addLiquidity", addLiquidity(pool, sender, amount0, amount1, now))

NestedRemoveLiquidity(sender, lpTokens) ==
    Nest("removeLiquidity", removeLiquidity(pool, sender, lpTokens, now))

NestedSwap(sender, tokenIn, amountIn, minAmountOut, deadline) ==
    /\ QuoteFits(pool, tokenIn, amountIn)
    /\ Nest("swap", swap(pool, tokenIn, amountIn, minAmountOut, deadline, now))

Tick ==
    /\ call.op = "none"
    /\ now < MaxTime
    /\ now' = now + 1
    /\ UNCHANGED <<pool, call, ret, nested, world, quotes, sim, elsewhere>>

----------------------------------------------------------------------------
(* The pool with two MockERC20 tokens. MockERC20 calls nobody, so each pool
   operation runs from its first line to its last without a call into the
   pool in between. Every caller has approved the pool for all it holds. *)

PoolAccount == "pool"
Holders == Users \cup {PoolAccount}

Deployer == "u1"

\* the deployer was minted MaxReserve of either token; nobody else holds any
Erc20Init ==
    erc20 = [balance0 |-> [h \in Holders |-> IF h = Deployer THEN MaxReserve ELSE 0],
             balance1 |-> [h \in Holders |-> IF h = Deployer THEN MaxReserve ELSE 0],
             last |-> [op |-> "none", ok |-> FALSE, err |-> ""]]

\* MockERC20.transfer and transferFrom between two different accounts: the
\* balances after it, or ok = FALSE where it reverts
mockTransfer(balanceOf, from, to, amount) ==
    IF balanceOf[from] >= amount
    THEN [ok |-> TRUE, balanceOf |-> [balanceOf EXCEPT ![from] = @ - amount, ![to] = @ + amount]]
    ELSE [ok |-> FALSE, balanceOf |-> balanceOf]

\* the outcome of a pool operation whose checks gave r and whose two token
\* calls gave t0 on token0 and t1 on token1
Settled(op, r, t0, t1, transferErr) ==
    IF ~r.ok
    THEN /\ erc20' = [erc20 EXCEPT !.last = [op |-> op, ok |-> FALSE, err |-> r.err]]
         /\ pool' = pool
    ELSE IF ~(t0.ok /\ t1.ok)
    THEN /\ erc20' = [erc20 EXCEPT !.last = [op |-> op, ok |-> FALSE, err |-> transferErr]]
         /\ pool' = pool
    ELSE /\ erc20' = [balance0 |-> t0.balanceOf, balance1 |-> t1.balanceOf,
                      last |-> [op |-> op, ok |-> TRUE, err |-> ""]]
         /\ pool' = r.s

Erc20AddLiquidity(sender, amount0, amount1) ==
    /\ erc20 # <<>>
    /\ Settled("addLiquidity", addLiquidity(pool, sender, amount0, amount1, now),
               mockTransfer(erc20.balance0, sender, PoolAccount, amount0),
               mockTransfer(erc20.balance1, sender, PoolAccount, amount1),
               "gPool: TRANSFER_FROM_FAILED")
    /\ UNCHANGED <<now, call, ret, nested, world, quotes, sim, factory, disc, agent, oracle,
                   loop, indexer>>

\* the two payouts of a withdrawal that passed its checks
Payouts(op, r) ==
    Settled(op, r,
            mockTransfer(erc20.balance0, PoolAccount, r.val[1], r.val[2]),
            mockTransfer(erc20.balance1, PoolAccount, r.val[1], r.val[3]),
            "gPool: TRANSFER_FAILED")

Erc20RemoveLiquidity(sender, lpTokens) ==
    /\ erc20 # <<>>
    /\ \E r \in {removeLiquidity(pool, sender, lpTokens, now)} :
          Payouts("removeLiquidity",
                  [r EXCEPT !.val = IF r.ok THEN <<sender, r.val[1], r.val[2]>>
                                    ELSE <<sender, 0, 0>>])
    /\ UNCHANGED <<now, call, ret, nested, world, quotes, sim, factory, disc, agent, oracle,
                   loop, indexer>>

\* transferFrom of the input and transfer of the output of a swap that
\* passed its checks with amountOut
SwapTransfers(sender, zeroIn, amountIn, amountOut, r) ==
    Settled("swap", r,
            IF zeroIn THEN mockTransfer(erc20.balance0, sender, PoolAccount, amountIn)
            ELSE mockTransfer(erc20.balance0, PoolAccount, sender, amountOut),
            IF zeroIn THEN mockTransfer(erc20.balance1, PoolAccount, sender, amountOut)
            ELSE mockTransfer(erc20.balance1, sender, PoolAccount, amountIn),
            IF zeroIn
            THEN (IF erc20.balance0[sender] >= amountIn THEN "gPool: TRANSFER_FAILED"
                  ELSE "gPool: TRANSFER_FROM_FAILED")
            ELSE (IF erc20.balance1[sender] >= amountIn THEN "gPool: TRANSFER_FAILED"
                  ELSE "gPool: TRANSFER_FROM_FAILED"))

Erc20Swap(sender, tokenIn, amountIn, minAmountOut) ==
    /\ erc20 # <<>>
    /\ \E r \in {swap(pool, tokenIn, amountIn, minAmountOut, now, now)} :
          SwapTransfers(sender, tokenIn = pool.token0, amountIn,
                        IF r.ok THEN r.val[1] ELSE 0, r)
    /\ UNCHANGED <<now, call, ret, nested, world, quotes, sim, factory, disc, agent, oracle,
                   loop, indexer>>

\* a holder sends tokens to the pool's address without calling the pool
Erc20Donate(sender, zero, amount) ==
    /\ erc20 # <<>>
    /\ amount > 0
    /\ (IF zero THEN erc20.balance0 ELSE erc20.balance1)[sender] >= amount
    /\ erc20' = [erc20 EXCEPT
                    !.balance0 = IF zero THEN mockTransfer(@, sender, PoolAccount, amount).balanceOf
                                 ELSE @,
                    !.balance1 = IF zero THEN @
                                 ELSE mockTransfer(@, sender, PoolAccount, amount).balanceOf,
                    !.last = [op |-> "transfer", ok |-> TRUE, err |-> ""]]
    /\ UNCHANGED <<pool, now, call, ret, nested, world, quotes, sim, factory, disc, agent,
                   oracle, loop, indexer>>

----------------------------------------------------------------------------
(* getAmountOut called as a view, on any arguments *)

QuoteAmounts == 0..MaxAmt \cup {100}
QuoteReserves == 0..MaxAmt \cup {1000}

GetAmountOutCall(amountIn, reserveIn, reserveOut) ==
    LET q == getAmountOut(pool, amountIn, reserveIn, reserveOut)
        rec == [amountIn |-> amountIn, reserveIn |-> reserveIn, reserveOut |-> reserveOut,
                ok |-> q.ok, err |-> q.err,
                amountOut |-> IF q.ok THEN q.val[1] ELSE 0]
    IN /\ quotes' = IF Len(quotes) < 2 THEN Append(quotes, rec) ELSE <<quotes[2], rec>>
       /\ UNCHANGED <<pool, now, call, ret, nested, world, sim, elsewhere>>

----------------------------------------------------------------------------
(* mockServer.ts: the agent-side data provider, beside the pools on chain *)

SimTokens == {"a", "b", "c"}
SimFees == {30, 1000}
SimAmounts == {0, 1, 10, 50}
\* what a pool on chain holds: nothing, or the first deposit made into it
SimDeposits == {<<0, 0>>, <<10, 100>>, <<100, 10>>, <<10, 10>>}
\* the routes asked about: cycles both ways round, open paths, a pool used
\* twice, an address in capitals, a token without any pool
SimRoutes == {<<"a", "b", "c", "a">>, <<"a", "c", "b", "a">>, <<"b", "c", "a">>,
              <<"c", "b">>, <<"a", "b", "a">>, <<"A", "b", "C", "a">>,
              <<"a", "d", "a">>, <<"a", "b", "d">>}
PoolAddresses == <<"0xpool1", "0xpool2", "0xpool3">>
PoolPairs == <<<<"a", "b">>, <<"b", "c">>, <<"a", "c">>>>

\* String.prototype.toLowerCase on the addresses used here
toLowerCase(x) ==
    IF x = "A" THEN "a" ELSE IF x = "B" THEN "b" ELSE IF x = "C" THEN "c"
    ELSE IF x = "D" THEN "d" ELSE IF x = "F" THEN "f" ELSE IF x = "P" THEN "p"
    ELSE IF x = "Q" THEN "q" ELSE x

\* getAmountOut of mockServer.ts (bigint arithmetic)
mockGetAmountOutDefaultFee(amountIn, reserveIn, reserveOut, swapFee) ==
    IF amountIn = 0 \/ reserveIn = 0 \/ reserveOut = 0 THEN 0
    ELSE LET amountInWithFee == amountIn * (10000 - 30)
             numerator == amountInWithFee * reserveOut
             denominator == reserveIn * 10000 + amountInWithFee
         IN numerator \div denominator

mockGetAmountOut(amountIn, reserveIn, reserveOut, swapFee) ==
    IF amountIn = 0 \/ reserveIn = 0 \/ reserveOut = 0 THEN 0
    ELSE LET amountInWithFee == amountIn * (10000 - swapFee)
             numerator == amountInWithFee * reserveOut
             denominator == reserveIn * 10000 + amountInWithFee
         IN numerator \div denominator

\* POOLS.find(p => ...): index of the first pool joining the two tokens, 0 if none
FindPool(POOLS, currentToken, nextToken) ==
    LET hits == {k \in 1..Len(POOLS) :
                    \/ /\ toLowerCase(POOLS[k].token0) = toLowerCase(currentToken)
                       /\ toLowerCase(POOLS[k].token1) = toLowerCase(nextToken)
                    \/ /\ toLowerCase(POOLS[k].token1) = toLowerCase(currentToken)
                       /\ toLowerCase(POOLS[k].token0) = toLowerCase(nextToken)}
    IN IF hits = {} THEN 0 ELSE CHOOSE k \in hits : \A m \in hits : k <= m

\* the loop of calculateRouteProfit from hop i on; poolsUsed counts the hops done
RECURSIVE routeLoop(_, _, _, _, _, _)
routeLoop(POOLS, route, i, currentAmount, currentToken, poolsUsed) ==
    IF i > Len(route)
    THEN [found |-> TRUE, amount |-> currentAmount, poolsUsed |-> poolsUsed]
    ELSE LET nextToken == route[i]
             k == FindPool(POOLS, currentToken, nextToken)
         IN IF k = 0
            THEN [found |-> FALSE, amount |-> 0, poolsUsed |-> poolsUsed]
            ELSE LET p == POOLS[k]
                     isToken0In == toLowerCase(p.token0) = toLowerCase(currentToken)
                     reserveIn == IF isToken0In THEN p.reserve0 ELSE p.reserve1
                     reserveOut == IF isToken0In THEN p.reserve1 ELSE p.reserve0
                 IN routeLoop(POOLS, route, i + 1,
                              mockGetAmountOut(currentAmount, reserveIn, reserveOut, p.swapFee),
                              nextToken, Append(poolsUsed, p.address))

calculateRouteProfitViableOnEqual(POOLS, route, amountIn) ==
    LET r == routeLoop(POOLS, route, 2, amountIn, route[1], <<>>) IN
    IF ~r.found
    THEN [route |-> route, amountIn |-> amountIn, amountOut |-> 0, profit |-> 0,
          gasEstimate |-> 0, viable |-> FALSE]
    ELSE LET amountOut == r.amount
             profit == IF amountOut > amountIn THEN amountOut - amountIn ELSE 0
         IN [route |-> route, amountIn |-> amountIn, amountOut |-> amountOut,
             profit |-> profit, gasEstimate |-> Len(r.poolsUsed) * 150000,
             viable |-> amountOut >= amountIn]

\* resolvers.Query.calculateRouteProfit
calculateRouteProfit(POOLS, route, amountIn) ==
    LET r == routeLoop(POOLS, route, 2, amountIn, route[1], <<>>) IN
    IF ~r.found
    THEN [route |-> route, amountIn |-> amountIn, amountOut |-> 0, profit |-> 0,
          gasEstimate |-> 0, viable |-> FALSE]
    ELSE LET amountOut == r.amount
             profit == IF amountOut > amountIn THEN amountOut - amountIn ELSE 0
         IN [route |-> route, amountIn |-> amountIn, amountOut |-> amountOut,
             profit |-> profit, gasEstimate |-> Len(r.poolsUsed) * 150000,
             viable |-> amountOut > amountIn]

\* processor/server.ts of the indexer: poolRepo.findOne for a pair of
\* lower-case addresses, index of the pool or 0
findOne(POOLS, tokenIn, tokenOut) ==
    LET hits == {k \in 1..Len(POOLS) :
                    \/ POOLS[k].token0 = tokenIn /\ POOLS[k].token1 = tokenOut
                    \/ POOLS[k].token1 = tokenIn /\ POOLS[k].token0 = tokenOut}
    IN IF hits = {} THEN 0 ELSE CHOOSE k \in hits : \A m \in hits : k <= m

\* its loop over the hops, from hop i on (i counts from 1 here); the fee is
\* the constant 0.3%
RECURSIVE indexerLoop(_, _, _, _)
indexerLoop(POOLS, route, i, currentAmount) ==
    IF i > Len(route) - 1 THEN [found |-> TRUE, amount |-> currentAmount]
    ELSE LET tokenIn == toLowerCase(route[i])
             tokenOut == toLowerCase(route[i + 1])
             k == findOne(POOLS, tokenIn, tokenOut)
         IN IF k = 0 THEN [found |-> FALSE, amount |-> 0]
            ELSE LET isToken0In == POOLS[k].token0 = tokenIn
                     reserveIn == IF isToken0In THEN POOLS[k].reserve0 ELSE POOLS[k].reserve1
                     reserveOut == IF isToken0In THEN POOLS[k].reserve1 ELSE POOLS[k].reserve0
                 IN IF reserveIn = 0 \/ reserveOut = 0 THEN [found |-> FALSE, amount |-> 0]
                    ELSE LET amountInWithFee == currentAmount * 997
                             numerator == amountInWithFee * reserveOut
                             denominator == (reserveIn * 1000) + amountInWithFee
                         IN indexerLoop(POOLS, route, i + 1, numerator \div denominator)

\* resolvers.Query.calculateRouteProfit of the indexer; an exception raised
\* inside (the database failing) is caught and answered like a missing pool
indexerCalculateRouteProfit(POOLS, route, amountIn, raises) ==
    LET r == indexerLoop(POOLS, route, 1, amountIn) IN
    IF raises \/ ~r.found
    THEN [route |-> route, amountIn |-> amountIn, amountOut |-> 0, profit |-> 0,
          gasEstimate |-> 0, viable |-> FALSE]
    ELSE LET profit == r.amount - amountIn
         IN [route |-> route, amountIn |-> amountIn, amountOut |-> r.amount,
             profit |-> profit, gasEstimate |-> 150000 * (Len(route) - 1),
             viable |-> profit > 0]

\* a pool on chain after the factory created it and a first deposit was made
Funded(t0, t1, fee, d) ==
    IF d[1] = 0 THEN initialize(t0, t1, fee)
    ELSE addLiquidity(initialize(t0, t1, fee), "u1", d[1], d[2], 0).s

\* the mock data describing that pool
MockPool(address, s) ==
    [address |-> address, token0 |-> s.token0, token1 |-> s.token1,
     reserve0 |-> s.reserve0, reserve1 |-> s.reserve1, swapFee |-> s.swapFee,
     totalSupply |-> s.totalSupply]

NoResult == [route |-> <<>>, amountIn |-> 0, amountOut |-> 0, profit |-> 0,
             gasEstimate |-> 0, viable |-> FALSE]

SimInit ==
    \E fee \in [1..3 -> SimFees], dep \in [1..3 -> SimDeposits] :
        LET chain == [k \in 1..3 |->
                        Funded(PoolPairs[k][1], PoolPairs[k][2], fee[k], dep[k])]
        IN sim = [POOLS |-> [k \in 1..3 |-> MockPool(PoolAddresses[k], chain[k])],
                  chain |-> chain, route |-> <<>>, amountIn |-> 0, hop |-> 0,
                  amount |-> 0, used |-> <<>>, status |-> "idle", err |-> "",
                  result |-> NoResult]

\* The agent asks the data provider for the profit of a route, then the same
\* route is traded on chain, one swap per hop.
AskRouteProfit(route, amountIn) ==
    /\ sim.status = "idle"
    /\ sim' = [sim EXCEPT !.route = route, !.amountIn = amountIn, !.hop = 2,
                          !.amount = amountIn, !.status = "trading",
                          !.result = calculateRouteProfit(sim.POOLS, route, amountIn)]
    /\ UNCHANGED <<pool, now, call, ret, nested, world, quotes, elsewhere>>

\* The same question put to the indexer's server.
AskIndexerRouteProfit(route, amountIn, raises) ==
    /\ sim.status = "idle"
    /\ sim' = [sim EXCEPT !.route = route, !.amountIn = amountIn,
                          !.amount = amountIn, !.status = "indexed",
                          !.err = IF raises THEN "database" ELSE "",
                          !.result = indexerCalculateRouteProfit(sim.POOLS, route, amountIn, raises)]
    /\ UNCHANGED <<pool, now, call, ret, nested, world, quotes, elsewhere>>

\* the pool on chain for a pair of token addresses (addresses compare
\* whatever their case), 0 if the factory has none
ChainPool(chain, x, y) ==
    LET hits == {k \in DOMAIN chain :
                    {chain[k].token0, chain[k].token1} = {toLowerCase(x), toLowerCase(y)}}
    IN IF hits = {} \/ toLowerCase(x) = toLowerCase(y) THEN 0 ELSE CHOOSE k \in hits : TRUE

TradeHop ==
    /\ sim.status = "trading"
    /\ LET k == ChainPool(sim.chain, sim.route[sim.hop - 1], sim.route[sim.hop]) IN
       IF k = 0
       THEN sim' = [sim EXCEPT !.status = "failed", !.err = "no pool"]
       ELSE LET r == swap(sim.chain[k], toLowerCase(sim.route[sim.hop - 1]),
                          sim.amount, 0, now, now)
            IN IF ~r.ok
               THEN sim' = [sim EXCEPT !.status = "failed", !.err = r.err]
               ELSE sim' = [sim EXCEPT !.chain[k] = r.s, !.amount = r.val[1],
                                       !.used = Append(@, k), !.hop = @ + 1,
                                       !.status = IF sim.hop = Len(sim.route)
                                                  THEN "done" ELSE "trading"]
    /\ UNCHANGED <<pool, now, call, ret, nested, world, quotes, elsewhere>>

----------------------------------------------------------------------------
(* gSwapFactory.sol. Addresses are numbers, 0 the zero address, so that    *)
(* they compare as in the contract.                                        *)

FactoryTokens == 0..MaxToken
FactoryFees == {30, 1000, 1001}

PoolCreated(p, _token0, _token1, index) ==
    [name |-> "PoolCreated", a |-> p, b |-> <<_token0, _token1>>, c |-> index]
FeeChanged(newFee) == [name |-> "FeeChanged", a |-> newFee, b |-> <<>>, c |-> 0]

\* the constructor: owner = msg.sender, no pools, swapFee = 30
FactoryConstructor(sender) ==
    [owner |-> sender, allPools |-> <<>>,
     getPool |-> [pr \in FactoryTokens \X FactoryTokens |-> 0],
     swapFee |-> 30, code |-> <<>>]

\* the CREATE2 address of the pool for a salt keccak256(_token0, _token1):
\* one address per ordered pair, never zero; 0 when the deployment fails
create2(_token0, _token1, deploys) ==
    IF deploys THEN 100 + 10 * _token0 + _token1 ELSE 0

createPoolUnsorted(f, token0, token1, deploys) ==
    IF ~(token0 # token1) THEN Revert(f, "gSwapFactory: SAME_TOKEN")
    ELSE IF ~(token0 # 0 /\ token1 # 0) THEN Revert(f, "gSwapFactory: ZERO_ADDRESS")
    ELSE LET _token0 == token0
             _token1 == token1
         IN IF ~(f.getPool[<<_token0, _token1>>] = 0)
            THEN Revert(f, "gSwapFactory: POOL_EXISTS")
            ELSE LET p == create2(_token0, _token1, deploys) IN
                 IF ~(p # 0) THEN Revert(f, "gSwapFactory: DEPLOY_FAILED")
                 ELSE Return([f EXCEPT !.code = (p :> initialize(_token0, _token1, f.swapFee)) @@ @,
                                       !.getPool[<<_token0, _token1>>] = p,
                                       !.allPools = Append(@, p)],
                             <<p>>, <<PoolCreated(p, _token0, _token1, Len(f.allPools))>>)

createPool(f, token0, token1, deploys) ==
    IF ~(token0 # token1) THEN Revert(f, "gSwapFactory: SAME_TOKEN")
    ELSE IF ~(token0 # 0 /\ token1 # 0) THEN Revert(f, "gSwapFactory: ZERO_ADDRESS")
    ELSE LET _token0 == IF token0 < token1 THEN token0 ELSE token1
             _token1 == IF token0 < token1 THEN token1 ELSE token0
         IN IF ~(f.getPool[<<_token0, _token1>>] = 0)
            THEN Revert(f, "gSwapFactory: POOL_EXISTS")
            ELSE LET p == create2(_token0, _token1, deploys) IN
                 IF ~(p # 0) THEN Revert(f, "gSwapFactory: DEPLOY_FAILED")
                 ELSE Return([f EXCEPT !.code = (p :> initialize(_token0, _token1, f.swapFee)) @@ @,
                                       !.getPool[<<_token0, _token1>>] = p,
                                       !.allPools = Append(@, p)],
                             <<p>>, <<PoolCreated(p, _token0, _token1, Len(f.allPools))>>)

poolCount(f) == Len(f.allPools)

setFee(f, sender, newFee) ==
    IF ~(sender = f.owner) THEN Revert(f, "gSwapFactory: NOT_OWNER")
    ELSE IF ~(newFee <= 1000) THEN Revert(f, "gSwapFactory: FEE_TOO_HIGH")
    ELSE Return([f EXCEPT !.swapFee = newFee], <<>>, <<FeeChanged(newFee)>>)

NoFactoryCall == [op |-> "none", token0 |-> 0, token1 |-> 0, ok |-> FALSE, err |-> "",
                  val |-> <<>>, events |-> <<>>, pre |-> <<>>]

FactoryInit == factory = [s |-> FactoryConstructor("u1"), last |-> NoFactoryCall]

\* a transaction calling createPool: a revert leaves the storage as it was
CreatePool(token0, token1, deploys) ==
    LET r == createPool(factory.s, token0, token1, deploys) IN
    /\ r.ok => poolCount(factory.s) < MaxPools
    /\ factory' = [s |-> IF r.ok THEN r.s ELSE factory.s,
                   last |-> [op |-> "createPool", token0 |-> token0, token1 |-> token1,
                             ok |-> r.ok, err |-> r.err, val |-> r.val,
                             events |-> r.events, pre |-> factory.s]]
    /\ UNCHANGED <<poolSide, erc20, indexer, disc, agent, oracle, loop>>

SetFee(sender, newFee) ==
    LET r == setFee(factory.s, sender, newFee) IN
    /\ factory' = [s |-> IF r.ok THEN r.s ELSE factory.s,
                   last |-> [op |-> "setFee", token0 |-> 0, token1 |-> 0,
                             ok |-> r.ok, err |-> r.err, val |-> r.val,
                             events |-> r.events, pre |-> factory.s]]
    /\ UNCHANGED <<poolSide, erc20, indexer, disc, agent, oracle, loop>>

----------------------------------------------------------------------------
(* mockServer.ts, arbitrageRoutes: route discovery over a pool set *)

\* the pool sets queried, as the token pairs of their pools in POOLS order:
\* a triangle, a triangle with addresses in capitals, a square, a square
\* with one diagonal, all six pools on four tokens, a path, no pool at all
DiscPairs == {<<<<"a", "b">>, <<"b", "c">>, <<"a", "c">>>>,
              <<<<"A", "b">>, <<"C", "B">>, <<"c", "a">>>>,
              <<<<"a", "b">>, <<"b", "c">>, <<"c", "d">>, <<"a", "d">>>>,
              <<<<"a", "b">>, <<"b", "c">>, <<"c", "d">>, <<"a", "d">>, <<"a", "c">>>>,
              <<<<"a", "b">>, <<"a", "c">>, <<"a", "d">>, <<"b", "c">>, <<"b", "d">>, <<"c", "d">>>>,
              <<<<"a", "b">>, <<"b", "c">>>>,
              <<>>}
DiscStarts == {"a", "A", "b", "d"}

\* the mock data of the pools on a sequence of token pairs
PoolsOn(pairs) ==
    [k \in 1..Len(pairs) |-> MockPool(k, initialize(pairs[k][1], pairs[k][2], 30))]

\* adj.get(t): the neighbours of token t in the order the pools add them
RECURSIVE adjOf(_, _, _)
adjOf(POOLS, t, k) ==
    IF k > Len(POOLS) THEN <<>>
    ELSE LET t0 == toLowerCase(POOLS[k].token0)
             t1 == toLowerCase(POOLS[k].token1)
         IN (IF t0 = t THEN <<t1>> ELSE <<>>) \o (IF t1 = t THEN <<t0>> ELSE <<>>)
               \o adjOf(POOLS, t, k + 1)

\* dfs(current, path, depth) and its loop over the neighbours; st carries
\* the routes pushed so far and the visited set, both shared by all calls
RECURSIVE dfs(_, _, _, _, _, _, _)
RECURSIVE dfsLoop(_, _, _, _, _, _, _, _)
dfs(POOLS, start, maxHops, current, path, depth, st) ==
    IF depth > maxHops THEN st
    ELSE IF depth > 2 /\ current = start
         THEN [st EXCEPT !.routes = Append(@, path)]
         ELSE dfsLoop(POOLS, start, maxHops, adjOf(POOLS, current, 1), 1, path, depth, st)

dfsLoop(POOLS, start, maxHops, neighbors, i, path, depth, st) ==
    IF i > Len(neighbors) THEN st
    ELSE LET next == neighbors[i] IN
         IF next # start /\ next \in st.visited
         THEN dfsLoop(POOLS, start, maxHops, neighbors, i + 1, path, depth, st)
         ELSE LET st1 == dfs(POOLS, start, maxHops, next, Append(path, next), depth + 1,
                             [st EXCEPT !.visited = @ \cup {next}])
              IN dfsLoop(POOLS, start, maxHops, neighbors, i + 1, path, depth,
                         [st1 EXCEPT !.visited = @ \ {next}])

\* resolvers.Query.arbitrageRoutes
arbitrageRoutes(POOLS, startToken, maxHops) ==
    LET start == toLowerCase(startToken) IN
    dfs(POOLS, start, maxHops, start, <<start>>, 1, [routes |-> <<>>, visited |-> {}]).routes

\* processor/server.ts of the indexer, arbitrageRoutes: its dfs and the loop
\* over the neighbours; the indexer stores every address in lower case, and
\* visited holds the start token from the beginning
RECURSIVE indexerDfs(_, _, _, _, _, _, _, _)
RECURSIVE indexerDfsLoop(_, _, _, _, _, _, _, _, _)
indexerDfs(POOLS, start, maxHops, current, path, visited, depth, routes) ==
    IF depth > maxHops THEN routes
    ELSE IF depth > 2 /\ current = start THEN Append(routes, path)
    ELSE indexerDfsLoop(POOLS, start, maxHops, adjOf(POOLS, current, 1), 1, path, visited,
                        depth, routes)

indexerDfsLoop(POOLS, start, maxHops, neighbors, i, path, visited, depth, routes) ==
    IF i > Len(neighbors) THEN routes
    ELSE IF neighbors[i] \in visited
    THEN indexerDfsLoop(POOLS, start, maxHops, neighbors, i + 1, path, visited, depth, routes)
    ELSE indexerDfsLoop(POOLS, start, maxHops, neighbors, i + 1, path, visited, depth,
                        indexerDfs(POOLS, start, maxHops, neighbors[i],
                                   Append(path, neighbors[i]), visited \cup {neighbors[i]},
                                   depth + 1, routes))

\* resolvers.Query.arbitrageRoutes of the indexer
indexerArbitrageRoutes(POOLS, startToken, maxHops) ==
    indexerDfs(POOLS, toLowerCase(startToken), maxHops, toLowerCase(startToken),
               <<toLowerCase(startToken)>>, {toLowerCase(startToken)}, 1, <<>>)

NotIndexed == [asked |-> FALSE, startToken |-> "", maxHops |-> 0, routes |-> <<>>]

DiscInit ==
    \E pairs \in DiscPairs :
        disc = [POOLS |-> PoolsOn(pairs), answers |-> <<>>, indexed |-> NotIndexed]

\* a query; the last two queries and their answers are kept
AskArbitrageRoutes(startToken, maxHops) ==
    LET rec == [startToken |-> startToken, maxHops |-> maxHops,
                routes |-> arbitrageRoutes(disc.POOLS, startToken, maxHops)]
    IN /\ disc' = [disc EXCEPT !.answers = IF Len(@) < 2 THEN Append(@, rec)
                                            ELSE <<@[2], rec>>]
       /\ UNCHANGED <<poolSide, erc20, indexer, factory, agent, oracle, loop>>

\* the same query put to the indexer's server, which indexed the same pools;
\* its last answer is kept
AskIndexerArbitrageRoutes(startToken, maxHops) ==
    /\ disc' = [disc EXCEPT !.indexed =
                    [asked |-> TRUE, startToken |-> startToken, maxHops |-> maxHops,
                     routes |-> indexerArbitrageRoutes(disc.POOLS, startToken, maxHops)]]
    /\ UNCHANGED <<poolSide, erc20, indexer, factory, agent, oracle, loop>>

----------------------------------------------------------------------------
(* The indexer: processor/main.ts. The chain emits logs, each in a block of
   its own; the processor hands them to the handler in batches, in chain
   order; the handler works on the entities of its batch and saves them to
   the store when the batch ends. Addresses come from the chain with
   capitals and are stored in lower case. Timestamps and the token metadata
   fetched over RPC are left out: no entity field modelled here reads them. *)

\* the logs the chain emits in a run
MaxLogs == 4

FACTORY_ADDRESS == "f"
\* the pools the factory can create, with their tokens, and a contract that
\* is no pool but emits a log with a pool event's topic
ChainPools == {"P", "Q"}
Token0Of == [p \in ChainPools |-> IF p = "P" THEN "A" ELSE "B"]
Token1Of == [p \in ChainPools |-> IF p = "P" THEN "B" ELSE "C"]
OtherContract == "D"
SyncValues == {<<1, 2>>, <<2, 1>>}

\* map.set(k, v) and map.get(k) on a map held as a function
Put(map, k, v) == [x \in DOMAIN map \cup {k} |-> IF x = k THEN v ELSE map[x]]

IndexerInit ==
    indexer = [pending |-> <<>>, height |-> 0,
               created |-> {},
               sync |-> [p \in ChainPools |-> <<0, 0>>],
               minted |-> [p \in ChainPools |-> 0],
               burned |-> [p \in ChainPools |-> 0],
               knownPools |-> {}, poolsPreloaded |-> FALSE,
               store |-> [factories |-> <<>>, tokens |-> <<>>, pools |-> <<>>],
               batches |-> 0]

\* the logs the chain can emit next
NextLogs ==
    {[address |-> "F", topic0 |-> "PoolCreated", pool |-> p, token0 |-> Token0Of[p],
      token1 |-> Token1Of[p]] : p \in ChainPools \ indexer.created}
    \cup {[address |-> a, topic0 |-> "Sync", reserve0 |-> v[1], reserve1 |-> v[2]] :
            a \in indexer.created \cup {OtherContract}, v \in SyncValues}
    \cup {[address |-> p, topic0 |-> "Swap", amountIn |-> 1, amountOut |-> 1, tokenIn |-> t] :
            p \in indexer.created, t \in {"A", "B", "C"}}
    \cup {[address |-> p, topic0 |-> "Mint", lpTokens |-> 1] : p \in indexer.created}
    \cup {[address |-> p, topic0 |-> "Burn", lpTokens |-> 1] :
            p \in {q \in indexer.created : indexer.minted[q] > indexer.burned[q]}}

\* the chain emits a log in a new block
ChainEmits(log) ==
    /\ indexer # <<>>
    /\ indexer.height < MaxLogs
    /\ log.topic0 = "Swap" => log.tokenIn \in {Token0Of[log.address], Token1Of[log.address]}
    /\ indexer' = [indexer EXCEPT
          !.pending = Append(@, [log |-> log, height |-> indexer.height + 1]),
          !.height = @ + 1,
          !.created = IF log.topic0 = "PoolCreated" THEN @ \cup {log.pool} ELSE @,
          !.sync = IF log.topic0 = "Sync" /\ log.address \in ChainPools
                   THEN [@ EXCEPT ![log.address] = <<log.reserve0, log.reserve1>>] ELSE @,
          !.minted = IF log.topic0 = "Mint" THEN [@ EXCEPT ![log.address] = @ + log.lpTokens]
                     ELSE @,
          !.burned = IF log.topic0 = "Burn" THEN [@ EXCEPT ![log.address] = @ + log.lpTokens]
                     ELSE @]
    /\ UNCHANGED <<poolSide, erc20, factory, disc, agent, oracle, loop>>

\* lines 57-66: the known pools when the handler starts on a batch
preload(ix) ==
    IF ~ix.poolsPreloaded THEN ix.knownPools \cup DOMAIN ix.store.pools ELSE ix.knownPools

getFactoryForgetsStore(st) ==
    IF FACTORY_ADDRESS \in DOMAIN st.factories THEN st
    ELSE [st EXCEPT !.factories =
            Put(@, FACTORY_ADDRESS, [poolCount |-> 0, totalVolumeUSD |-> 0, totalFeesUSD |-> 0])]

\* getFactory(FACTORY_ADDRESS): the factory is in st.factories afterwards
getFactory(st) ==
    IF FACTORY_ADDRESS \in DOMAIN st.factories THEN st
    ELSE [st EXCEPT !.factories =
            Put(@, FACTORY_ADDRESS,
                IF FACTORY_ADDRESS \in DOMAIN st.store.factories
                THEN st.store.factories[FACTORY_ADDRESS]
                ELSE [poolCount |-> 0, totalVolumeUSD |-> 0, totalFeesUSD |-> 0])]

\* getToken(address): the token is in st.tokens afterwards
getToken(st, address) ==
    IF toLowerCase(address) \in DOMAIN st.tokens THEN st
    ELSE [st EXCEPT !.tokens =
            Put(@, toLowerCase(address),
                IF toLowerCase(address) \in DOMAIN st.store.tokens
                THEN st.store.tokens[toLowerCase(address)]
                ELSE [totalPools |-> 0])]

\* getPool(address): the pool is in st.pools afterwards if the batch or the
\* store has it
getPool(st, address) ==
    IF toLowerCase(address) \in DOMAIN st.pools THEN st
    ELSE IF toLowerCase(address) \in DOMAIN st.store.pools
    THEN [st EXCEPT !.pools = Put(@, toLowerCase(address), st.store.pools[toLowerCase(address)])]
    ELSE st

\* lines 148-186, with the factory and both tokens in st
handlePoolCreated(st, log, height) ==
    [st EXCEPT
        !.tokens = [t \in DOMAIN @ |->
                      [totalPools |-> @[t].totalPools
                                        + (IF t = toLowerCase(log.token0) THEN 1 ELSE 0)
                                        + (IF t = toLowerCase(log.token1) THEN 1 ELSE 0)]],
        !.pools = Put(@, toLowerCase(log.pool),
                      [token0 |-> toLowerCase(log.token0), token1 |-> toLowerCase(log.token1),
                       reserve0 |-> 0, reserve1 |-> 0, swapFee |-> 30, totalSupply |-> 0,
                       blockNumber |-> height, volumeToken0 |-> 0, volumeToken1 |-> 0,
                       txCount |-> 0]),
        !.knownPools = @ \cup {toLowerCase(log.pool)},
        !.factories[FACTORY_ADDRESS].poolCount = @ + 1]

\* lines 195-228, on the pool key that getPool found
handlePoolEvent(st, key, log, height) ==
    IF log.topic0 = "Sync"
    THEN [st EXCEPT !.pools[key].reserve0 = log.reserve0,
                    !.pools[key].reserve1 = log.reserve1,
                    !.pools[key].blockNumber = height]
    ELSE IF log.topic0 = "Swap"
    THEN [getFactory(st) EXCEPT
            !.pools[key].volumeToken0 =
                @ + (IF toLowerCase(log.tokenIn) = st.pools[key].token0 THEN log.amountIn
                     ELSE log.amountOut),
            !.pools[key].volumeToken1 =
                @ + (IF toLowerCase(log.tokenIn) = st.pools[key].token0 THEN log.amountOut
                     ELSE log.amountIn),
            !.pools[key].txCount = @ + 1,
            !.factories[FACTORY_ADDRESS].totalVolumeUSD = @ + log.amountIn,
            !.factories[FACTORY_ADDRESS].totalFeesUSD = @ + (log.amountIn * 30) \div 10000]
    ELSE IF log.topic0 = "Mint"
    THEN [st EXCEPT !.pools[key].totalSupply = @ + log.lpTokens, !.pools[key].txCount = @ + 1]
    ELSE IF log.topic0 = "Burn"
    THEN [st EXCEPT !.pools[key].totalSupply = @ - log.lpTokens, !.pools[key].txCount = @ + 1]
    ELSE st

\* lines 190-193: a log of a known pool that getPool finds, loaded
handleKnown(st, log, height) ==
    IF toLowerCase(log.address) \in DOMAIN st.pools
    THEN handlePoolEvent(st, toLowerCase(log.address), log, height)
    ELSE st

\* the body of the loop over the logs of the batch
handleLog(st, log, height) ==
    IF toLowerCase(log.address) = FACTORY_ADDRESS /\ log.topic0 = "PoolCreated"
    THEN handlePoolCreated(getToken(getToken(getFactory(st), log.token0), log.token1),
                           log, height)
    ELSE IF toLowerCase(log.address) \notin st.knownPools THEN st
    ELSE handleKnown(getPool(st, log.address), log, height)

RECURSIVE handleLogs(_, _, _)
handleLogs(st, logs, i) ==
    IF i > Len(logs) THEN st
    ELSE handleLogs(handleLog(st, logs[i].log, logs[i].height), logs, i + 1)

\* lines 232-234: ctx.store.save of the entities of the batch
save(store, map) == [x \in DOMAIN store \cup DOMAIN map |-> IF x \in DOMAIN map THEN map[x] ELSE store[x]]

\* the indexer after the handler ran on a batch that ended in st
Saved(ix, n, st) ==
    [ix EXCEPT !.pending = SubSeq(@, n + 1, Len(@)),
               !.knownPools = st.knownPools,
               !.poolsPreloaded = TRUE,
               !.store = [factories |-> save(@.factories, st.factories),
                          tokens |-> save(@.tokens, st.tokens),
                          pools |-> save(@.pools, st.pools)],
               !.batches = @ + 1]

\* the handler of processor.run on the next n logs
ProcessBatch(n) ==
    /\ indexer # <<>>
    /\ n <= Len(indexer.pending)
    /\ indexer' = Saved(indexer, n,
                        handleLogs([store |-> indexer.store, knownPools |-> preload(indexer),
                                    factories |-> <<>>, pools |-> <<>>, tokens |-> <<>>],
                                   SubSeq(indexer.pending, 1, n), 1))
    /\ UNCHANGED <<poolSide, erc20, factory, disc, agent, oracle, loop>>

\* the processor is started again: the module's variables are new, the store
\* is the database
Restart ==
    /\ indexer # <<>>
    /\ indexer.poolsPreloaded
    /\ indexer' = [indexer EXCEPT !.knownPools = {}, !.poolsPreloaded = FALSE]
    /\ UNCHANGED <<poolSide, erc20, factory, disc, agent, oracle, loop>>

----------------------------------------------------------------------------
(* The arbitrage agent: calculator.ts, analyzer.ts, transaction.ts and     *)
(* agent.ts. The agent's tokens have 18 decimals; its amounts are counted  *)
(* in units of 10^18 base units and its money in whole USD, which with the *)
(* prices and gas settings used here are whole numbers. Percentages are in *)
(* hundredths of a percent, rounded down (0.1% is 10), confidences in      *)
(* hundredths (0.6 is 60).                                                 *)

\* calculator.ts estimateTokenPriceUSD
estimateTokenPriceUSD(symbol) ==
    IF symbol \in {"WETH", "ETH"} THEN 2000
    ELSE IF symbol \in {"USDC", "DAI", "USDT"} THEN 1
    ELSE IF symbol \in {"WBTC", "BTC"} THEN 40000
    ELSE 0

\* mockData.ts getTokenByAddress: the symbol of the first token with that
\* address, "" when there is none
getTokenByAddress(tokens, address) ==
    LET hits == {k \in 1..Len(tokens) : toLowerCase(tokens[k].address) = toLowerCase(address)}
    IN IF hits = {} THEN "" ELSE tokens[CHOOSE k \in hits : \A m \in hits : k <= m].symbol

NoOpportunity == [id |-> <<>>, route |-> <<>>, amountIn |-> 0, amountOut |-> 0, profit |-> 0,
                  profitPercent |-> 0, profitUSD |-> 0, gasEstimate |-> 0, gasCostUSD |-> 0,
                  netProfitUSD |-> 0, viable |-> FALSE]

\* evaluateRoute, lines 115-131: the money figures, in whole USD and in
\* hundredths of a percent
gasCostUSD(cfg, gasEstimate) ==
    (((gasEstimate * cfg.gasPriceGwei) \div 1000000) * cfg.ethPriceUSD) \div 1000
profitPercent(profitUSD, amountInUSD) ==
    IF amountInUSD > 0 THEN (profitUSD * 10000) \div amountInUSD ELSE 0

\* evaluateRoute, lines 133-153: the opportunity returned
ArbitrageOpportunity(route, amountIn, result, profitUSD, gasCost, percent) ==
    [id |-> <<route, amountIn>>, route |-> route,
     amountIn |-> result.amountIn, amountOut |-> result.amountOut,
     profit |-> result.profit, profitPercent |-> percent,
     profitUSD |-> profitUSD, gasEstimate |-> result.gasEstimate,
     gasCostUSD |-> gasCost, netProfitUSD |-> profitUSD - gasCost,
     viable |-> profitUSD - gasCost > 0]

\* evaluateRoute from the data provider's answer on: null (some = FALSE) or
\* an opportunity
evaluated(cfg, route, amountIn, result, tokenPriceUSD) ==
    IF ~result.viable THEN [some |-> FALSE, opp |-> NoOpportunity]
    ELSE IF profitPercent(result.profit * tokenPriceUSD, amountIn * tokenPriceUSD)
               < cfg.minProfitPercent
         THEN [some |-> FALSE, opp |-> NoOpportunity]
         ELSE [some |-> TRUE,
               opp |-> ArbitrageOpportunity(route, amountIn, result, result.profit * tokenPriceUSD,
                                            gasCostUSD(cfg, result.gasEstimate),
                                            profitPercent(result.profit * tokenPriceUSD,
                                                          amountIn * tokenPriceUSD))]

\* ArbitrageCalculator.evaluateRoute
evaluateRouteNoFloor(m, cfg, route, amountIn) ==
    evaluated([cfg EXCEPT !.minProfitPercent = 0], route, amountIn,
              calculateRouteProfit(m.POOLS, route, amountIn),
              estimateTokenPriceUSD(getTokenByAddress(m.tokens, route[1])))

evaluateRoute(m, cfg, route, amountIn) ==
    evaluated(cfg, route, amountIn,
              calculateRouteProfit(m.POOLS, route, amountIn),
              estimateTokenPriceUSD(getTokenByAddress(m.tokens, route[1])))

\* Array.prototype.sort with (a, b) => b.netProfitUSD - a.netProfitUSD:
\* highest net profit first, equal ones in their order of arrival
RECURSIVE insertByNetProfit(_, _)
insertByNetProfit(sorted, o) ==
    IF sorted = <<>> THEN <<o>>
    ELSE IF o.netProfitUSD > sorted[1].netProfitUSD THEN <<o>> \o sorted
    ELSE <<sorted[1]>> \o insertByNetProfit(Tail(sorted), o)

RECURSIVE sortByNetProfit(_)
sortByNetProfit(opps) ==
    IF opps = <<>> THEN <<>>
    ELSE insertByNetProfit(sortByNetProfit(SubSeq(opps, 1, Len(opps) - 1)), opps[Len(opps)])

\* findOpportunities, lines 74-76: an evaluation is kept when it is an
\* opportunity and viable
kept(e) == IF e.some /\ e.opp.viable THEN <<e.opp>> ELSE <<>>

\* the two loops of findOpportunities, from route r and test amount a on;
\* an evaluation in raising throws, which is caught and logged
RECURSIVE evaluateAll(_, _, _, _, _, _)
evaluateAll(m, cfg, routes, r, a, raising) ==
    IF r > Len(routes) THEN <<>>
    ELSE IF a > Len(cfg.testAmounts) THEN evaluateAll(m, cfg, routes, r + 1, 1, raising)
    ELSE (IF <<routes[r], cfg.testAmounts[a]>> \in raising THEN <<>>
          ELSE kept(evaluateRoute(m, cfg, routes[r], cfg.testAmounts[a])))
            \o evaluateAll(m, cfg, routes, r, a + 1, raising)

\* ArbitrageCalculator.findOpportunities
findOpportunities(m, cfg, startTokenAddress, raising) ==
    sortByNetProfit(evaluateAll(m, cfg, arbitrageRoutes(m.POOLS, startTokenAddress, cfg.maxHops),
                                1, 1, raising))

\* the loop of scan over the tokens, from token t on
RECURSIVE allOpportunities(_, _, _, _)
allOpportunities(m, cfg, t, raising) ==
    IF t > Len(m.tokens) THEN <<>>
    ELSE findOpportunities(m, cfg, m.tokens[t].address, raising)
            \o allOpportunities(m, cfg, t + 1, raising)

\* analyzer.ts: the decision analyzeOpportunity falls back to when callLLM throws
DefaultDecision ==
    [shouldExecute |-> FALSE, confidence |-> 0,
     reasoning |-> "LLM analysis failed, defaulting to conservative (no execution)"]

\* what a request to the model can come to: an answer, or one of the failures
LLMOutcomes == {"answer", "timeout", "rate-limited", "api-error", "invalid-json"}
\* Text is a sequence of characters. A response is a sequence of lines, each
\* shown as line.split(':') leaves it: the key before the first colon and
\* the value joined from what follows.
Line(key, value) == [key |-> key, value |-> value]
DigitChars == <<"0", "1", "2", "3", "4", "5", "6", "7", "8", "9">>
isDigit(c) == \E d \in 1..Len(DigitChars) : DigitChars[d] = c
digitOf(c) == (CHOOSE d \in 1..Len(DigitChars) : DigitChars[d] = c) - 1

\* String.prototype.trim
RECURSIVE trimStart(_)
trimStart(text) ==
    IF text # <<>> /\ text[1] = " " THEN trimStart(Tail(text)) ELSE text
RECURSIVE trimEnd(_)
trimEnd(text) ==
    IF text # <<>> /\ text[Len(text)] = " " THEN trimEnd(SubSeq(text, 1, Len(text) - 1))
    ELSE text
trim(text) == trimEnd(trimStart(text))

\* String.prototype.toLowerCase on the letters used in the responses
lowerOf(c) ==
    IF c = "T" THEN "t" ELSE IF c = "R" THEN "r" ELSE IF c = "U" THEN "u"
    ELSE IF c = "E" THEN "e" ELSE IF c = "F" THEN "f" ELSE IF c = "A" THEN "a"
    ELSE IF c = "L" THEN "l" ELSE IF c = "S" THEN "s" ELSE IF c = "Y" THEN "y"
    ELSE c
toLowerCaseText(text) == [k \in 1..Len(text) |-> lowerOf(text[k])]

\* the first index from i on at which text holds no digit
RECURSIVE endOfDigits(_, _)
endOfDigits(text, i) ==
    IF i <= Len(text) /\ isDigit(text[i]) THEN endOfDigits(text, i + 1) ELSE i

\* the number written by the digits text[from..to], 0 for none
RECURSIVE numberOf(_, _, _)
numberOf(text, from, to) ==
    IF to < from THEN 0 ELSE numberOf(text, from, to - 1) * 10 + digitOf(text[to])

\* the first two digits of a fraction text[from..to], in hundredths
hundredthsOf(text, from, to) ==
    (IF from <= to THEN digitOf(text[from]) * 10 ELSE 0)
       + (IF from + 1 <= to THEN digitOf(text[from + 1]) ELSE 0)

\* parseFloat from the sign on: the longest prefix that reads as a decimal
\* number, in hundredths, or NaN when there is none. Exponents and
\* "Infinity" do not occur in the texts used; digits after the second
\* decimal are dropped.
NaN == [nan |-> TRUE, v |-> 0]
parseSigned(text, first, intEnd) ==
    LET fracEnd == IF intEnd <= Len(text) /\ text[intEnd] = "."
                   THEN endOfDigits(text, intEnd + 1) ELSE intEnd
    IN IF (intEnd - first) + (IF fracEnd > intEnd THEN fracEnd - intEnd - 1 ELSE 0) = 0
       THEN NaN
       ELSE [nan |-> FALSE,
             v |-> (IF first = 2 /\ text[1] = "-" THEN -1 ELSE 1)
                      * (numberOf(text, first, intEnd - 1) * 100
                            + hundredthsOf(text, intEnd + 1, fracEnd - 1))]

parseFloatFrom(text, first) == parseSigned(text, first, endOfDigits(text, first))

\* parseFloat: leading white space is skipped, then an optional sign
parseFloat(text) ==
    parseFloatFrom(trimStart(text),
                   IF trimStart(text) # <<>> /\ trimStart(text)[1] \in {"-", "+"} THEN 2 ELSE 1)

\* `parseFloat(value) || 0`: NaN and 0 both give 0
orZero(f) == IF f.nan THEN 0 ELSE f.v

\* the loop of parseDecision over the lines: a later line overwrites an
\* earlier one of the same key; has holds the keys assigned so far
RECURSIVE parseLines(_, _, _)
parseLines(lines, i, decision) ==
    IF i > Len(lines) THEN decision
    ELSE parseLines(lines, i + 1,
            IF lines[i].key = "SHOULD_EXECUTE"
            THEN [decision EXCEPT !.has = @ \cup {"shouldExecute"},
                     !.shouldExecute = toLowerCaseText(trim(lines[i].value)) = <<"t", "r", "u", "e">>]
            ELSE IF lines[i].key = "CONFIDENCE"
            THEN [decision EXCEPT !.has = @ \cup {"confidence"},
                     !.confidence = orZero(parseFloat(trim(lines[i].value)))]
            ELSE IF lines[i].key = "REASONING"
            THEN [decision EXCEPT !.has = @ \cup {"reasoning"}, !.reasoning = "given"]
            ELSE decision)

\* the ?? defaults of parseDecision's return
withDefaults(decision) ==
    [shouldExecute |-> IF "shouldExecute" \in decision.has THEN decision.shouldExecute ELSE FALSE,
     confidence |-> IF "confidence" \in decision.has THEN decision.confidence ELSE 0,
     reasoning |-> IF "reasoning" \in decision.has THEN decision.reasoning
                   ELSE "No reasoning provided"]

\* LLMAnalyzer.parseDecision; confidence in hundredths, the text of the
\* reasoning not kept
parseDecision(response) ==
    withDefaults(parseLines(response, 1,
                            [has |-> {}, shouldExecute |-> FALSE, confidence |-> 0,
                             reasoning |-> ""]))

\* analyzeOpportunity on what callLLM came to: a response, or an exception
analyzeOpportunity(threw, response) ==
    IF threw THEN DefaultDecision ELSE parseDecision(response)

\* the answers the agent is given: all three lines, well formed
Answer(shouldExecute, confidence) ==
    <<Line("SHOULD_EXECUTE", shouldExecute), Line("CONFIDENCE", confidence),
      Line("REASONING", <<"o", "k">>)>>
LLMAnswers ==
    {Answer(<<"t", "r", "u", "e">>, <<" ", "0", ".", "5", "9">>),
     Answer(<<"t", "r", "u", "e">>, <<" ", "0", ".", "6">>),
     Answer(<<" ", "f", "a", "l", "s", "e">>, <<"0", ".", "6">>)}
\* a request and what comes back: a failure carries no answer
LLMReplies ==
    {[outcome |-> "answer", answer |-> a, decision |-> parseDecision(a)] : a \in LLMAnswers}
       \cup {[outcome |-> o, answer |-> <<>>, decision |-> DefaultDecision] :
                 o \in LLMOutcomes \ {"answer"}}

\* One pass of the loop of callLLM, attempt being the loop counter: the call
\* returns, throws, or goes round again.
callLLMCountsFailuresOnly(attempt, retries, outcome) ==
    IF outcome = "answer" THEN [next |-> "return", attempt |-> attempt]
    ELSE IF outcome = "rate-limited"
         THEN [next |-> "again", attempt |-> attempt]
         ELSE IF attempt = retries THEN [next |-> "throw", attempt |-> attempt]
              ELSE [next |-> "again", attempt |-> attempt + 1]

callLLM(attempt, retries, outcome) ==
    IF outcome = "answer" THEN [next |-> "return", attempt |-> attempt]
    ELSE IF outcome = "rate-limited"
         THEN IF attempt + 1 <= retries THEN [next |-> "again", attempt |-> attempt + 1]
              ELSE [next |-> "throw", attempt |-> attempt]
         ELSE IF attempt = retries THEN [next |-> "throw", attempt |-> attempt]
              ELSE [next |-> "again", attempt |-> attempt + 1]

\* transaction.ts: the mock wallet and gas price, in units of 10^18 and gwei
getBalance == [token |-> 10, eth |-> 5]
getGasPrice == [gwei |-> 20]

\* TransactionExecutor.preflightChecks
preflightChecks(opportunity, cfg) ==
    LET hasBalance == getBalance.token >= opportunity.amountIn
        gasOk == getGasPrice.gwei <= cfg.maxGasPrice
        errors == (IF ~hasBalance THEN <<"Insufficient balance">> ELSE <<>>)
                  \o (IF ~gasOk THEN <<"Gas price too high">> ELSE <<>>)
                  \o (IF opportunity.profitPercent < 5
                      THEN <<"Opportunity profit too low">> ELSE <<>>)
    IN [ran |-> TRUE, passed |-> Len(errors) = 0, errors |-> errors]

\* calculator.ts getRoutePools: for each hop the first pool holding tokenIn
\* that also holds tokenOut, hops without one left out
RECURSIVE getRoutePools(_, _, _)
getRoutePools(POOLS, route, i) ==
    IF i > Len(route) - 1 THEN <<>>
    ELSE LET hits == {k \in 1..Len(POOLS) :
                        /\ toLowerCase(route[i]) \in
                              {toLowerCase(POOLS[k].token0), toLowerCase(POOLS[k].token1)}
                        /\ toLowerCase(route[i + 1]) \in
                              {toLowerCase(POOLS[k].token0), toLowerCase(POOLS[k].token1)}}
         IN (IF hits = {} THEN <<>> ELSE <<POOLS[CHOOSE k \in hits : \A m \in hits : k <= m]>>)
               \o getRoutePools(POOLS, route, i + 1)

\* prepareSwapSteps: TRUE when every hop finds its pool, FALSE when it throws
prepareSwapSteps(opportunity, pools) ==
    \A i \in 1..(Len(opportunity.route) - 1) :
        FindPool(pools, opportunity.route[i], opportunity.route[i + 1]) # 0

\* floor(Number(opportunity.profit) * (1 + variance)), variance in percent
actualProfit(opportunity, variance) == (opportunity.profit * (100 + variance)) \div 100

\* receipt.blockNumber of a successful result, 0 where there is no receipt
receiptBlockNumber(result) == IF result.success THEN 1000000 + result.nonce ELSE 0

\* a settlement that takes a sequence number also when it reverts
simulateExecutionCountsReverts(opportunity, nonce, random, variance) ==
    IF ~random
    THEN [success |-> FALSE, error |-> "Simulation: Transaction would revert (slippage exceeded)",
          actualProfit |-> 0, prepared |-> TRUE, settled |-> TRUE, nonce |-> nonce + 1]
    ELSE [success |-> TRUE, error |-> "", actualProfit |-> actualProfit(opportunity, variance),
          prepared |-> TRUE, settled |-> TRUE, nonce |-> nonce + 1]

\* simulateExecution: the mock settlement; random and variance are its draws
simulateExecution(opportunity, nonce, random, variance) ==
    IF ~random
    THEN [success |-> FALSE, error |-> "Simulation: Transaction would revert (slippage exceeded)",
          actualProfit |-> 0, prepared |-> TRUE, settled |-> TRUE, nonce |-> nonce]
    ELSE [success |-> TRUE, error |-> "", actualProfit |-> actualProfit(opportunity, variance),
          prepared |-> TRUE, settled |-> TRUE, nonce |-> nonce + 1]

executeArbitrageNoThreshold(opportunity, decision, pools, nonce, random, variance) ==
    IF ~decision.shouldExecute
    THEN [success |-> FALSE, error |-> "LLM decision: do not execute", actualProfit |-> 0,
          prepared |-> FALSE, settled |-> FALSE, nonce |-> nonce]
    ELSE IF ~prepareSwapSteps(opportunity, pools)
         THEN [success |-> FALSE, error |-> "thrown: No pool found", actualProfit |-> 0,
               prepared |-> FALSE, settled |-> FALSE, nonce |-> nonce]
         ELSE simulateExecution(opportunity, nonce, random, variance)

\* TransactionExecutor.executeArbitrage; an error "thrown: ..." stands for
\* the exception of prepareSwapSteps leaving the call
executeArbitrage(opportunity, decision, pools, nonce, random, variance) ==
    IF ~decision.shouldExecute
    THEN [success |-> FALSE, error |-> "LLM decision: do not execute", actualProfit |-> 0,
          prepared |-> FALSE, settled |-> FALSE, nonce |-> nonce]
    ELSE IF decision.confidence < 60
         THEN [success |-> FALSE, error |-> "Confidence too low", actualProfit |-> 0,
               prepared |-> FALSE, settled |-> FALSE, nonce |-> nonce]
         ELSE IF ~prepareSwapSteps(opportunity, pools)
              THEN [success |-> FALSE, error |-> "thrown: No pool found", actualProfit |-> 0,
                    prepared |-> FALSE, settled |-> FALSE, nonce |-> nonce]
              ELSE simulateExecution(opportunity, nonce, random, variance)

\* agent.ts. The data provider's pools: a triangle whose prices disagree,
\* so that going round it one way pays. The tokens the provider lists, in
\* two orders.
AgentPOOLS ==
    <<MockPool("0xpool1", Funded("a", "b", 30, <<100, 200>>)),
      MockPool("0xpool2", Funded("b", "c", 30, <<100, 200>>)),
      MockPool("0xpool3", Funded("a", "c", 30, <<200, 100>>))>>
AgentMarkets ==
    {[tokens |-> <<[address |-> "a", symbol |-> "DAI"], [address |-> "c", symbol |-> "WETH"]>>,
      POOLS |-> AgentPOOLS],
     [tokens |-> <<[address |-> "a", symbol |-> "WETH"], [address |-> "b", symbol |-> "MOCK1"],
                   [address |-> "c", symbol |-> "DAI"]>>,
      POOLS |-> AgentPOOLS]}

\* DEFAULT_CONFIG of agent.ts, calculator.ts, analyzer.ts and transaction.ts
\* with three test amounts and an API key set
DEFAULT_CONFIG ==
    [autoExecute |-> FALSE, maxConcurrentOpportunities |-> 3, minProfitPercent |-> 10,
     maxHops |-> 4, gasPriceGwei |-> 20, ethPriceUSD |-> 2000, testAmounts |-> <<4, 10, 20>>,
     apiKey |-> TRUE, maxGasPrice |-> 50, retries |-> 3]

\* the configurations the agent is constructed with
AgentConfigs ==
    {DEFAULT_CONFIG,
     [DEFAULT_CONFIG EXCEPT !.apiKey = FALSE],
     [DEFAULT_CONFIG EXCEPT !.maxConcurrentOpportunities = 1],
     [DEFAULT_CONFIG EXCEPT !.minProfitPercent = 30000],
     [DEFAULT_CONFIG EXCEPT !.autoExecute = TRUE],
     [DEFAULT_CONFIG EXCEPT !.autoExecute = TRUE, !.maxConcurrentOpportunities = 1],
     [DEFAULT_CONFIG EXCEPT !.autoExecute = TRUE, !.maxGasPrice = 10]}

NoChecks == [ran |-> FALSE, passed |-> FALSE, errors |-> <<>>]
NoAnalysis == [made |-> 0, failed |-> 0, decision |-> DefaultDecision]
NoExec == [ran |-> FALSE, mode |-> "", opportunity |-> NoOpportunity, decision |-> DefaultDecision,
           checks |-> NoChecks, success |-> FALSE, error |-> "", prepared |-> FALSE,
           settled |-> FALSE, nonceBefore |-> 0, nonceAfter |-> 0, blockNumber |-> 0]

\* ArbitrageAgent after construction with configuration cfg, its provider
\* serving the market m
NewAgent(cfg, m) ==
    [cfg |-> cfg, market |-> m,
     status |-> [opportunitiesFound |-> 0, opportunitiesExecuted |-> 0,
                 totalProfit |-> 0, errors |-> 0],
     nonce |-> 0, succeeded |-> 0, phase |-> "idle", mode |-> "", cycles |-> 0,
     all |-> <<>>, raising |-> {}, queue |-> <<>>, idx |-> 0,
     attempt |-> 0, made |-> 0, failed |-> 0, queries |-> 0,
     analyzed |-> NoAnalysis,
     decision |-> DefaultDecision, checks |-> NoChecks, exec |-> NoExec]

AgentInit ==
    \E cfg \in AgentConfigs, m \in AgentMarkets : agent = NewAgent(cfg, m)

\* the evaluations that may fail in a scan: none, or one of the first
\* token's routes at one test amount
Triangles(routes) == {q \in {routes[k] : k \in 1..Len(routes)} : Len(q) = 4}
Raisings(m, cfg) ==
    {{}} \cup {{<<r, cfg.testAmounts[2]>>} :
                 r \in Triangles(arbitrageRoutes(m.POOLS, m.tokens[1].address, cfg.maxHops))}

\* the opportunity being handled
Current(a) == a.queue[a.idx]

\* analyzeOpportunity is entered for the next opportunity of the queue, or
\* the loop of scan is over
NextOpportunity(a) ==
    IF a.idx < Len(a.queue)
    THEN [a EXCEPT !.idx = @ + 1, !.phase = "oracle", !.attempt = 1, !.made = 0,
                   !.failed = 0, !.queries = @ + 1, !.checks = NoChecks]
    ELSE [a EXCEPT !.phase = "idle"]

\* scan, lines 186-199: the opportunities found are counted and the first
\* maxConcurrentOpportunities of them are to be analyzed
toAnalyze(a, allOpps) ==
    [a EXCEPT !.all = allOpps,
              !.queue = SubSeq(allOpps, 1, Min(a.cfg.maxConcurrentOpportunities, Len(allOpps))),
              !.idx = 0, !.queries = 0,
              !.status.opportunitiesFound = @ + Len(allOpps)]

\* ArbitrageAgent.scan up to its first analyzeOpportunity
Scan(raising) ==
    /\ agent.phase = "idle"
    /\ agent.cycles < MaxCycles
    /\ agent' = NextOpportunity(
                    toAnalyze([agent EXCEPT !.cycles = @ + 1, !.mode = "scan",
                                            !.raising = raising],
                              allOpportunities(agent.market, agent.cfg, 1, raising)))
    /\ UNCHANGED <<poolSide, erc20, indexer, factory, disc, oracle, loop>>

\* scan when the data provider cannot be reached: the error is recorded
ScanFails ==
    /\ agent.phase = "idle"
    /\ agent.cycles < MaxCycles
    /\ agent' = [agent EXCEPT !.cycles = @ + 1, !.mode = "scan failed", !.all = <<>>, !.queue = <<>>,
                              !.idx = 0, !.queries = 0, !.raising = {},
                              !.status.errors = @ + 1]
    /\ UNCHANGED <<poolSide, erc20, indexer, factory, disc, oracle, loop>>

\* evaluateAndExecute after analyzeOpportunity has returned decision d, and
\* manualExecute at the same point
DecidedWhateverAutoExecute(a, d) ==
    LET a1 == [a EXCEPT !.decision = d, !.attempt = 0, !.made = 0, !.failed = 0,
                        !.analyzed = [made |-> a.made, failed |-> a.failed, decision |-> d]] IN
    IF a.mode = "manual" THEN [a1 EXCEPT !.phase = "execute"]
    ELSE IF d.shouldExecute THEN [a1 EXCEPT !.phase = "preflight"]
    ELSE NextOpportunity(a1)

Decided(a, d) ==
    LET a1 == [a EXCEPT !.decision = d, !.attempt = 0, !.made = 0, !.failed = 0,
                        !.analyzed = [made |-> a.made, failed |-> a.failed, decision |-> d]] IN
    IF a.mode = "manual" THEN [a1 EXCEPT !.phase = "execute"]
    ELSE IF d.shouldExecute /\ a.cfg.autoExecute THEN [a1 EXCEPT !.phase = "preflight"]
    ELSE NextOpportunity(a1)

\* callLLM without an API key throws before any request
OracleUnconfigured ==
    /\ agent.phase = "oracle"
    /\ ~agent.cfg.apiKey
    /\ agent' = Decided(agent, DefaultDecision)
    /\ UNCHANGED <<poolSide, erc20, indexer, factory, disc, oracle, loop>>

\* one request of callLLM and what follows from its outcome; decision is
\* what parseDecision makes of the response when there is one
OracleAttempt(outcome, decision) ==
    /\ agent.phase = "oracle"
    /\ agent.cfg.apiKey
    /\ LET c == callLLM(agent.attempt, agent.cfg.retries, outcome)
           a1 == [agent EXCEPT !.made = @ + 1, !.attempt = c.attempt,
                               !.failed = IF outcome = "answer" THEN @ ELSE @ + 1]
       IN agent' = IF c.next = "again" THEN a1
                   ELSE IF c.next = "return" THEN Decided(a1, decision)
                   ELSE Decided(a1, DefaultDecision)
    /\ UNCHANGED <<poolSide, erc20, indexer, factory, disc, oracle, loop>>

\* executeOpportunity up to executeArbitrage
Preflight ==
    /\ agent.phase = "preflight"
    /\ LET checks == preflightChecks(Current(agent), agent.cfg)
           a1 == [agent EXCEPT !.checks = checks]
       IN agent' = IF ~checks.passed THEN NextOpportunity(a1)
                   ELSE [a1 EXCEPT !.phase = "execute"]
    /\ UNCHANGED <<poolSide, erc20, indexer, factory, disc, oracle, loop>>

\* executeArbitrage, and what executeOpportunity (scan) or manualExecute do
\* with its result
Execute(random, variance) ==
    /\ agent.phase = "execute"
    /\ LET opp == Current(agent)
           r == executeArbitrage(opp, agent.decision,
                                 getRoutePools(agent.market.POOLS, opp.route, 1),
                                 agent.nonce, random, variance)
           a1 == [agent EXCEPT !.nonce = r.nonce,
                               !.exec = [ran |-> TRUE, mode |-> agent.mode, opportunity |-> opp,
                                         decision |-> agent.decision, checks |-> agent.checks,
                                         success |-> r.success, error |-> r.error,
                                         prepared |-> r.prepared, settled |-> r.settled,
                                         nonceBefore |-> agent.nonce, nonceAfter |-> r.nonce,
                                         blockNumber |-> receiptBlockNumber(r)],
                               !.succeeded = IF r.success THEN @ + 1 ELSE @]
       IN agent' = IF agent.mode = "manual" THEN [a1 EXCEPT !.phase = "idle"]
                   ELSE IF r.error = "thrown: No pool found"
                        THEN [a1 EXCEPT !.phase = "idle", !.status.errors = @ + 1]
                        ELSE IF r.success
                             THEN NextOpportunity(
                                     [a1 EXCEPT !.status.opportunitiesExecuted = @ + 1,
                                                !.status.totalProfit =
                                                    @ + r.actualProfit * agent.cfg.ethPriceUSD])
                             ELSE NextOpportunity(a1)
    /\ UNCHANGED <<poolSide, erc20, indexer, factory, disc, oracle, loop>>

\* the first opportunity with that id among those findOpportunities returns,
\* token by token
find(opportunities, opportunityId) ==
    LET hits == {k \in 1..Len(opportunities) : opportunities[k].id = opportunityId}
    IN IF hits = {} THEN <<>>
       ELSE <<opportunities[CHOOSE k \in hits : \A j \in hits : k <= j]>>

RECURSIVE findMatch(_, _, _, _)
findMatch(m, cfg, t, opportunityId) ==
    IF t > Len(m.tokens) THEN <<>>
    ELSE IF find(findOpportunities(m, cfg, m.tokens[t].address, {}), opportunityId) = <<>>
         THEN findMatch(m, cfg, t + 1, opportunityId)
         ELSE find(findOpportunities(m, cfg, m.tokens[t].address, {}), opportunityId)

\* the ids manualExecute is called with
ManualIds ==
    {<<<<"a", "b", "c", "a">>, 20>>, <<<<"a", "b", "c", "a">>, 10>>,
     <<<<"c", "a", "b", "c">>, 4>>, <<<<"a", "c", "b", "a">>, 10>>}

\* ArbitrageAgent.manualExecute up to analyzeOpportunity
ManualExecute(opportunityId) ==
    /\ agent.phase = "idle"
    /\ agent.cycles < MaxCycles
    /\ agent' = NextOpportunity(
                    [agent EXCEPT !.cycles = @ + 1, !.mode = "manual",
                                  !.queue = findMatch(agent.market, agent.cfg, 1, opportunityId),
                                  !.idx = 0, !.queries = 0])
    /\ UNCHANGED <<poolSide, erc20, indexer, factory, disc, oracle, loop>>

----------------------------------------------------------------------------
\* the pool lists executeArbitrage is handed for a route: the route's pools
\* as getRoutePools returns them when the provider lists all of them, when it
\* no longer lists the first, and when it lists none
SuppliedPools(POOLS, route) ==
    {getRoutePools(POOLS, route, 1), Tail(getRoutePools(POOLS, route, 1)), <<>>}

\* the decisions executeArbitrage is handed
SuppliedDecisions == {reply.decision : reply \in LLMReplies}

\* a call of TransactionExecutor.executeArbitrage by the holder of an executor
ExecuteArbitrage(opportunity, decision, pools, random, variance) ==
    /\ agent.phase = "idle"
    /\ agent.cycles < MaxCycles
    /\ \E r \in {executeArbitrage(opportunity, decision, pools, agent.nonce, random, variance)} :
          agent' = [agent EXCEPT !.cycles = @ + 1, !.mode = "direct", !.nonce = r.nonce,
                       !.decision = decision,
                       !.exec = [ran |-> TRUE, mode |-> "direct", opportunity |-> opportunity,
                                 decision |-> decision, checks |-> NoChecks,
                                 success |-> r.success, error |-> r.error,
                                 prepared |-> r.prepared, settled |-> r.settled,
                                 nonceBefore |-> agent.nonce, nonceAfter |-> r.nonce,
                                 blockNumber |-> receiptBlockNumber(r)],
                       !.succeeded = IF r.success THEN @ + 1 ELSE @]
    /\ UNCHANGED <<poolSide, erc20, indexer, factory, disc, oracle, loop>>

\* the calls made with one of the opportunities found
ExecutorCalls(opportunities) ==
    \E k \in 1..Len(opportunities), decision \in SuppliedDecisions, random \in BOOLEAN,
       variance \in {-5, 0} :
        \E pools \in SuppliedPools(agent.market.POOLS, opportunities[k].route) :
            ExecuteArbitrage(opportunities[k], decision, pools, random, variance)

----------------------------------------------------------------------------
(* The calculator on its own: findOpportunities from any token *)

\* a market of four tokens in which, from a, the round a-d-c-b-a and the
\* triangle a-c-b-a pay the same after gas
SquarePOOLS ==
    <<MockPool("0xpool1", Funded("a", "b", 30, <<100, 50>>)),
      MockPool("0xpool2", Funded("b", "c", 30, <<200, 50>>)),
      MockPool("0xpool3", Funded("c", "d", 30, <<200, 200>>)),
      MockPool("0xpool4", Funded("d", "a", 30, <<300, 50>>)),
      MockPool("0xpool5", Funded("c", "a", 30, <<400, 200>>))>>
CalculatorMarkets ==
    AgentMarkets \cup
       {[tokens |-> <<[address |-> "a", symbol |-> "DAI"], [address |-> "b", symbol |-> "MOCK1"],
                      [address |-> "c", symbol |-> "WETH"], [address |-> "d", symbol |-> "USDC"]>>,
         POOLS |-> SquarePOOLS]}
CalculatorConfigs ==
    {[DEFAULT_CONFIG EXCEPT !.maxHops = maxHops, !.testAmounts = testAmounts,
                            !.minProfitPercent = minProfitPercent] :
        maxHops \in {4, MaxHops}, testAmounts \in {<<4, 10, 20>>, <<20, 10, 4>>, <<10>>},
        minProfitPercent \in {10, 30000}}

CalculatorInit ==
    \E cfg \in CalculatorConfigs, m \in CalculatorMarkets : agent = NewAgent(cfg, m)

\* a call of ArbitrageCalculator.findOpportunities
FindOpportunities(t) ==
    /\ agent.phase = "idle"
    /\ agent.cycles < MaxCycles
    /\ t \in 1..Len(agent.market.tokens)
    /\ agent' = [agent EXCEPT !.cycles = @ + 1, !.mode = "find",
                              !.all = findOpportunities(agent.market, agent.cfg,
                                                        agent.market.tokens[t].address, {})]
    /\ UNCHANGED <<poolSide, erc20, indexer, factory, disc, oracle, loop>>

----------------------------------------------------------------------------
(* The analyzer on its own: analyzeOpportunity on any response *)

ShouldExecuteTexts ==
    {<<"t", "r", "u", "e">>, <<" ", "T", "r", "u", "e", " ">>, <<"f", "a", "l", "s", "e">>,
     <<"y", "e", "s">>, <<>>}
ConfidenceTexts ==
    {<<"0", ".", "6">>, <<" ", "0", ".", "8", "5">>, <<"8", "5">>, <<"-", "0", ".", "5">>,
     <<"0", ".", "9", "x">>, <<"h", "i", "g", "h">>, <<>>, <<".", "5">>, <<"1">>,
     <<"1", ".", "5">>}
\* no line of the key, or one line with one of the texts
Optional(key, texts) == {<<>>} \cup {<<Line(key, text)>> : text \in texts}
Responses ==
    {se \o cf \o re : se \in Optional("SHOULD_EXECUTE", ShouldExecuteTexts),
                      cf \in Optional("CONFIDENCE", ConfidenceTexts),
                      re \in Optional("REASONING", {<<"o", "k">>})}

NotAnalyzed ==
    [analyzed |-> FALSE, threw |-> FALSE, response |-> <<>>, decision |-> DefaultDecision]

AnalyzerInit == oracle = NotAnalyzed

\* a call of analyzeOpportunity: callLLM returns the response or throws
AnalyzeOpportunity(threw, response) ==
    /\ oracle # <<>>
    /\ oracle' = [analyzed |-> TRUE, threw |-> threw, response |-> response,
                  decision |-> analyzeOpportunity(threw, response)]
    /\ UNCHANGED <<poolSide, erc20, indexer, factory, disc, agent, loop>>

----------------------------------------------------------------------------
(* The agent's polling loop: start, stop, the interval timer and the scans in
   flight. The runtime runs one callback at a time up to its next await, so
   each action is one such stretch. *)

\* start() calls and timer ticks in one run of the loop
MaxCalls == 3

\* ArbitrageAgent after construction: not running, no timer, no errors
LoopInit ==
    loop = [isRunning |-> FALSE, intervalId |-> 0, timers |-> {}, armed |-> 0,
            scans |-> {}, started |-> 0, errors |-> 0, starts |-> 0, ticks |-> 0,
            last |-> [op |-> "none", scan |-> 0]]

\* scan() up to its first await: a cycle is in flight, in its discovery phase
beginScan(l, origin) ==
    [l EXCEPT !.started = @ + 1,
              !.scans = @ \cup {[id |-> l.started + 1, origin |-> origin, phase |-> "discovery"]}]

\* setInterval in start(): a new timer, its id kept in intervalId
setInterval(l) ==
    [l EXCEPT !.armed = @ + 1, !.intervalId = l.armed + 1, !.timers = @ \cup {l.armed + 1}]

\* scan() has returned: the cycle is over; start() awaiting it goes on to
\* arm the timer
scanReturned(l, s) ==
    IF s.origin = "start" THEN setInterval([l EXCEPT !.scans = @ \ {s}])
    ELSE [l EXCEPT !.scans = @ \ {s}]

\* an exception inside the try of scan() that does not record the error
scanCatchDropsError(l, s) ==
    scanReturned(l, s)

\* the catch of scan(): the error is pushed to status.errors and scan() returns
scanCatch(l, s) ==
    scanReturned([l EXCEPT !.errors = @ + 1], s)

\* start() that arms the timer before its first scan
agentStartArmsFirst(l) ==
    IF l.isRunning THEN l
    ELSE beginScan(setInterval([l EXCEPT !.isRunning = TRUE]), "start")

\* start() up to `await this.scan()`
agentStart(l) ==
    IF l.isRunning THEN l
    ELSE beginScan([l EXCEPT !.isRunning = TRUE], "start")

\* stop()
agentStop(l) ==
    IF ~l.isRunning THEN l
    ELSE [l EXCEPT !.timers = IF l.intervalId # 0 THEN @ \ {l.intervalId} ELSE @,
                   !.intervalId = 0,
                   !.isRunning = FALSE]

Start ==
    /\ loop # <<>>
    /\ loop.starts + loop.ticks < MaxCalls
    /\ loop' = [agentStart(loop) EXCEPT !.starts = @ + 1,
                   !.last = [op |-> IF loop.isRunning THEN "start ignored" ELSE "start",
                             scan |-> IF loop.isRunning THEN 0 ELSE loop.started + 1]]
    /\ UNCHANGED <<poolSide, erc20, indexer, factory, disc, agent, oracle>>

Stop ==
    /\ loop # <<>>
    /\ loop' = [agentStop(loop) EXCEPT
                   !.last = [op |-> IF loop.isRunning THEN "stop" ELSE "stop ignored", scan |-> 0]]
    /\ UNCHANGED <<poolSide, erc20, indexer, factory, disc, agent, oracle>>

\* an armed timer fires: its callback calls scan()
TimerFires(timer) ==
    /\ loop # <<>>
    /\ timer \in loop.timers
    /\ loop.starts + loop.ticks < MaxCalls
    /\ loop' = [beginScan(loop, "timer") EXCEPT !.ticks = @ + 1,
                   !.last = [op |-> "tick", scan |-> loop.started + 1]]
    /\ UNCHANGED <<poolSide, erc20, indexer, factory, disc, agent, oracle>>

\* a cycle goes on from discovery to evaluateAndExecute and its oracle call,
\* and from there to executeOpportunity
ScanAdvances(s) ==
    /\ loop # <<>>
    /\ s \in loop.scans
    /\ s.phase \in {"discovery", "oracle"}
    /\ loop' = [loop EXCEPT
                   !.scans = (@ \ {s}) \cup
                      {[s EXCEPT !.phase = IF s.phase = "discovery" THEN "oracle" ELSE "execution"]},
                   !.last = [op |-> "advance", scan |-> s.id]]
    /\ UNCHANGED <<poolSide, erc20, indexer, factory, disc, agent, oracle>>

\* a cycle ends: no opportunities were found, none was approved, or the
\* execution is over
ScanReturns(s) ==
    /\ loop # <<>>
    /\ s \in loop.scans
    /\ loop' = [scanReturned(loop, s) EXCEPT !.last = [op |-> "return", scan |-> s.id]]
    /\ UNCHANGED <<poolSide, erc20, indexer, factory, disc, agent, oracle>>

\* an await inside the try of scan() rejects
ScanThrows(s) ==
    /\ loop # <<>>
    /\ s \in loop.scans
    /\ loop' = [scanCatch(loop, s) EXCEPT !.last = [op |-> "throw", scan |-> s.id]]
    /\ UNCHANGED <<poolSide, erc20, indexer, factory, disc, agent, oracle>>

SimIdle == sim = <<>>

ElsewhereIdle ==
    /\ factory = <<>> /\ disc = <<>> /\ agent = <<>> /\ oracle = <<>> /\ loop = <<>>
    /\ erc20 = <<>> /\ indexer = <<>>

Init == PoolInit /\ quotes = <<>> /\ SimIdle /\ ElsewhereIdle

Next ==
    \/ \E u \in Users, a0, a1 \in world.amounts : CallAddLiquidity(u, a0, a1)
    \/ \E u \in Users : \E lp \in Shares(u) : CallRemoveLiquidity(u, lp)
    \/ \E u \in Users, t \in {Token0, Token1, OtherToken}, a \in world.swapAmounts,
          m \in world.minOuts, d \in 0..MaxTime : CallSwap(u, t, a, m, d)
    \/ TokenCallReturns
    \/ TokenCallFails
    \/ \E u \in Users, a0, a1 \in NestedAmounts : NestedAddLiquidity(u, a0, a1)
    \/ \E u \in Users, lp \in NestedAmounts : NestedRemoveLiquidity(u, lp)
    \/ \E u \in Users, t \in NestedTokens, a \in NestedAmounts :
          NestedSwap(u, t, a, 0, MaxTime)
    \/ Tick

Spec == Init /\ [][Next]_vars

\* one pool, untouched, beside the view calls and the simulator
PoolIdle ==
    /\ world = SmallWorld
    /\ pool = initialize(Token0, Token1, 30)
    /\ now = 0
    /\ call = NoCall
    /\ ret = NoRet
    /\ nested = NoNested

QuoteInit == PoolInit /\ world = SmallWorld /\ quotes = <<>> /\ SimIdle /\ ElsewhereIdle

QuoteNext ==
    \E a \in QuoteAmounts, rin, rout \in QuoteReserves : GetAmountOutCall(a, rin, rout)

QuoteSpec == QuoteInit /\ [][QuoteNext]_vars

SimSpecInit == PoolIdle /\ quotes = <<>> /\ SimInit /\ ElsewhereIdle

SimNext ==
    \/ \E route \in SimRoutes, amountIn \in SimAmounts : AskRouteProfit(route, amountIn)
    \/ TradeHop
    \/ \E route \in SimRoutes, amountIn \in SimAmounts, raises \in BOOLEAN :
          AskIndexerRouteProfit(route, amountIn, raises)

SimSpec == SimSpecInit /\ [][SimNext]_vars

FactorySpecInit ==
    /\ PoolIdle /\ quotes = <<>> /\ SimIdle /\ erc20 = <<>> /\ indexer = <<>>
    /\ disc = <<>> /\ agent = <<>> /\ oracle = <<>> /\ loop = <<>>
    /\ FactoryInit

FactoryNext ==
    \/ \E token0, token1 \in FactoryTokens, deploys \in BOOLEAN : CreatePool(token0, token1, deploys)
    \/ \E sender \in Users, newFee \in FactoryFees : SetFee(sender, newFee)

FactorySpec == FactorySpecInit /\ [][FactoryNext]_vars

DiscSpecInit ==
    /\ PoolIdle /\ quotes = <<>> /\ SimIdle /\ erc20 = <<>> /\ indexer = <<>>
    /\ factory = <<>> /\ agent = <<>> /\ oracle = <<>> /\ loop = <<>>
    /\ DiscInit

DiscNext == \E startToken \in DiscStarts, maxHops \in 1..MaxHops : AskArbitrageRoutes(startToken, maxHops)

DiscSpec == DiscSpecInit /\ [][DiscNext]_vars

\* the same pool sets, queried through the indexer's server
IndexerDiscNext ==
    \E startToken \in DiscStarts, maxHops \in 1..MaxHops :
        AskIndexerArbitrageRoutes(startToken, maxHops)

IndexerDiscSpec == DiscSpecInit /\ [][IndexerDiscNext]_vars

AgentSpecInit ==
    /\ PoolIdle /\ quotes = <<>> /\ SimIdle /\ erc20 = <<>> /\ indexer = <<>>
    /\ factory = <<>> /\ disc = <<>> /\ oracle = <<>> /\ loop = <<>>
    /\ AgentInit

OracleStep ==
    \/ OracleUnconfigured
    \/ \E reply \in LLMReplies : OracleAttempt(reply.outcome, reply.decision)

AgentNext ==
    \/ \E raising \in Raisings(agent.market, agent.cfg) : Scan(raising)
    \/ ScanFails
    \/ OracleStep
    \/ Preflight
    \/ \E random \in BOOLEAN, variance \in {-5, 0} : Execute(random, variance)
    \/ \E opportunityId \in ManualIds : ManualExecute(opportunityId)

AgentSpec == AgentSpecInit /\ [][AgentNext]_vars

\* every request to the model ends (execSync returns or times out after 30 s)
\* and the sleeps between requests end
AgentLiveSpec == AgentSpec /\ WF_vars(OracleStep)

ExecutorNext == ExecutorCalls(allOpportunities(agent.market, agent.cfg, 1, {}))

ExecutorSpec == AgentSpecInit /\ [][ExecutorNext]_vars

CalculatorSpecInit ==
    /\ PoolIdle /\ quotes = <<>> /\ SimIdle /\ erc20 = <<>> /\ indexer = <<>>
    /\ factory = <<>> /\ disc = <<>> /\ oracle = <<>> /\ loop = <<>>
    /\ CalculatorInit

CalculatorNext == \E t \in 1..Len(agent.market.tokens) : FindOpportunities(t)

CalculatorSpec == CalculatorSpecInit /\ [][CalculatorNext]_vars

Erc20SpecInit ==
    /\ PoolInit /\ world = SmallWorld /\ quotes = <<>> /\ SimIdle
    /\ factory = <<>> /\ disc = <<>> /\ agent = <<>> /\ oracle = <<>> /\ loop = <<>>
    /\ indexer = <<>>
    /\ Erc20Init

Erc20Next ==
    \/ \E u \in Users, a0, a1 \in world.amounts : Erc20AddLiquidity(u, a0, a1)
    \/ \E u \in Users : \E lp \in Shares(u) : Erc20RemoveLiquidity(u, lp)
    \/ \E u \in Users, t \in {Token0, Token1, OtherToken}, a \in world.swapAmounts,
          m \in world.minOuts : Erc20Swap(u, t, a, m)
    \/ \E u \in Users, zero \in BOOLEAN, a \in world.amounts : Erc20Donate(u, zero, a)

Erc20Spec == Erc20SpecInit /\ [][Erc20Next]_vars

IndexerSpecInit ==
    /\ PoolIdle /\ quotes = <<>> /\ SimIdle /\ erc20 = <<>>
    /\ factory = <<>> /\ disc = <<>> /\ agent = <<>> /\ oracle = <<>> /\ loop = <<>>
    /\ IndexerInit

IndexerNext ==
    \/ \E log \in NextLogs : ChainEmits(log)
    \/ \E n \in 1..MaxLogs : ProcessBatch(n)
    \/ Restart

IndexerSpec == IndexerSpecInit /\ [][IndexerNext]_vars

AnalyzerSpecInit ==
    /\ PoolIdle /\ quotes = <<>> /\ SimIdle /\ erc20 = <<>> /\ indexer = <<>>
    /\ factory = <<>> /\ disc = <<>> /\ agent = <<>> /\ loop = <<>>
    /\ AnalyzerInit

AnalyzerNext ==
    \E threw \in BOOLEAN, response \in Responses : AnalyzeOpportunity(threw, response)

AnalyzerSpec == AnalyzerSpecInit /\ [][AnalyzerNext]_vars

LoopSpecInit ==
    /\ PoolIdle /\ quotes = <<>> /\ SimIdle /\ erc20 = <<>> /\ indexer = <<>>
    /\ factory = <<>> /\ disc = <<>> /\ agent = <<>> /\ oracle = <<>>
    /\ LoopInit

ScanStep ==
    \E s \in loop.scans : ScanAdvances(s) \/ ScanReturns(s) \/ ScanThrows(s)

LoopNext ==
    \/ Start
    \/ Stop
    \/ \E timer \in loop.timers : TimerFires(timer)
    \/ ScanStep

LoopSpec == LoopSpecInit /\ [][LoopNext]_vars

\* every await of a cycle settles: the provider, the oracle and the
\* settlement answer or time out
LoopLiveSpec == LoopSpec /\ WF_vars(ScanStep)

----------------------------------------------------------------------------
(* Properties of the pool *)

SameLedger(s, t) ==
    /\ s.reserve0 = t.reserve0
    /\ s.reserve1 = t.reserve1
    /\ s.totalSupply = t.totalSupply
    /\ s.balanceOf = t.balanceOf

IsFloorSqrt(r, y) == r * r <= y /\ y < (r + 1) * (r + 1)

\* C1: in every state, also between the steps of an operation, the share
\* balances of all holders add up to totalSupply.
C1_SharesSumToTotalSupply == SumOver(pool.balanceOf, Users) = pool.totalSupply

C1_Witness ==
    /\ ret.op = "removeLiquidity" /\ ret.ok
    /\ \A u \in Users : pool.balanceOf[u] > 0

\* C3: a call of addLiquidity, removeLiquidity or swap made while one of the
\* three is executing fails with the re-entrancy error and leaves the pool
\* as it is.
C3_NestedCallRejected ==
    [][(call.op # "none" /\ call' = call /\ nested'.op # "none")
        => (~nested'.ok /\ nested'.err = "gPool: REENTRANT" /\ pool' = pool)]_vars

C3_Witness ==
    /\ call.op = "removeLiquidity" /\ call.pc = 2
    /\ nested.op = "swap" /\ nested.err = "gPool: REENTRANT"
    /\ pool.reserve0 > 0 /\ pool.reserve1 > 0

\* C4: a call that fails, at top level or nested, leaves the reserves, the
\* total supply and every share balance as they were when it was made.
C4_FailureChangesNothing ==
    [][/\ (ret'.op # "none" /\ ~ret'.ok)
          => SameLedger(pool', IF call.op = "none" THEN pool ELSE call.snap)
       /\ (call.op # "none" /\ call' = call /\ nested'.op # "none" /\ ~nested'.ok)
          => SameLedger(pool', pool)]_vars

C4_Witness ==
    /\ ret.op = "removeLiquidity" /\ ret.err = "gPool: TRANSFER_FAILED"
    /\ pool.totalSupply > 0 /\ pool = ret.pre

\* C6: a successful swap returns the quote computed on the reserves before
\* the call, at least minAmountOut; the reserve of tokenIn grows by amountIn,
\* the other reserve shrinks by amountOut, shares are untouched; reserves
\* 1000/1000 with fee 30 and amountIn 100 give 90.
C6_SwapEffect ==
    (ret.op = "swap" /\ ret.ok) =>
        LET pre == ret.pre
            zeroIn == ret.tokenIn = pre.token0
            reserveIn == IF zeroIn THEN pre.reserve0 ELSE pre.reserve1
            reserveOut == IF zeroIn THEN pre.reserve1 ELSE pre.reserve0
            amountIn == ret.arg0
            amountOut == ret.val[1]
            f == 10000 - pre.swapFee
        IN /\ amountOut = (amountIn * f * reserveOut) \div (reserveIn * 10000 + amountIn * f)
           /\ amountOut >= ret.arg1
           /\ (reserveIn = 1000 /\ reserveOut = 1000 /\ pre.swapFee = 30 /\ amountIn = 100)
                 => amountOut = 90
           /\ pool.reserve0 = IF zeroIn THEN pre.reserve0 + amountIn ELSE pre.reserve0 - amountOut
           /\ pool.reserve1 = IF zeroIn THEN pre.reserve1 - amountOut ELSE pre.reserve1 + amountIn
           /\ pool.totalSupply = pre.totalSupply
           /\ pool.balanceOf = pre.balanceOf

\* C7: a successful addLiquidity mints floor(sqrt(amount0 * amount1)) on an
\* empty pool (1000 and 4000 give 2000), else the smaller of the two
\* proportional amounts rounded down; reserves grow by the deposit, totalSupply
\* and the caller's balance by the shares minted; a deposit whose share
\* number is 0 fails.
C7_AddLiquidityEffect ==
    /\ (ret.op = "addLiquidity" /\ ret.ok) =>
        LET pre == ret.pre
            lp == ret.val[1]
        IN /\ IF pre.totalSupply = 0
              THEN IsFloorSqrt(lp, ret.arg0 * ret.arg1)
              ELSE lp = Min((ret.arg0 * pre.totalSupply) \div pre.reserve0,
                            (ret.arg1 * pre.totalSupply) \div pre.reserve1)
           /\ (pre.totalSupply = 0 /\ ret.arg0 = 1000 /\ ret.arg1 = 4000) => lp = 2000
           /\ lp > 0
           /\ pool.reserve0 = pre.reserve0 + ret.arg0
           /\ pool.reserve1 = pre.reserve1 + ret.arg1
           /\ pool.totalSupply = pre.totalSupply + lp
           /\ pool.balanceOf = [pre.balanceOf EXCEPT ![ret.sender] = @ + lp]
    /\ (call.op = "none" /\ pool.totalSupply > 0) =>
        \A u \in Users, a0, a1 \in world.amounts \ {0} :
            (Min((a0 * pool.totalSupply) \div pool.reserve0,
                 (a1 * pool.totalSupply) \div pool.reserve1) = 0)
            => ~addLiquidity(pool, u, a0, a1, now).ok

C7_Witness ==
    /\ ret.op = "addLiquidity" /\ ret.ok
    /\ ret.pre.totalSupply = 0 /\ ret.arg0 = 1000 /\ ret.arg1 = 4000
    /\ ret.val = <<2000>> /\ pool.totalSupply = 2000

\* C8: removing exactly the shares just minted by one's own deposit returns
\* no more of either token than was deposited, and exactly the deposit when
\* the pool had no shares before it.
C8_RoundTrip ==
    (ret.op = "removeLiquidity" /\ ret.ok /\ ret.prev.op = "addLiquidity"
        /\ ret.arg0 = ret.prev.lpTokens) =>
        /\ ret.val[1] <= ret.prev.amount0
        /\ ret.val[2] <= ret.prev.amount1
        /\ ret.prev.supplyBefore = 0 =>
              (ret.val[1] = ret.prev.amount0 /\ ret.val[2] = ret.prev.amount1)

C8_Witness ==
    /\ ret.op = "removeLiquidity" /\ ret.ok /\ ret.prev.op = "addLiquidity"
    /\ ret.arg0 = ret.prev.lpTokens
    /\ ret.prev.supplyBefore > 0
    /\ ret.val[1] < ret.prev.amount0

\* C9: a deposit into a non-empty pool mints no more shares than either side
\* of it pays for, so what any number of already existing shares redeems of
\* each token is not less after the deposit than before.
C9_DepositNeverDilutes ==
    (ret.op = "addLiquidity" /\ ret.ok /\ ret.pre.totalSupply > 0) =>
        LET pre == ret.pre
            lp == ret.val[1]
        IN /\ lp * pre.reserve0 <= ret.arg0 * pre.totalSupply
           /\ lp * pre.reserve1 <= ret.arg1 * pre.totalSupply
           /\ \A sh \in 1..pre.totalSupply :
                /\ (sh * pool.reserve0) \div pool.totalSupply
                      >= (sh * pre.reserve0) \div pre.totalSupply
                /\ (sh * pool.reserve1) \div pool.totalSupply
                      >= (sh * pre.reserve1) \div pre.totalSupply

C9_Witness ==
    /\ ret.op = "addLiquidity" /\ ret.ok /\ ret.pre.totalSupply > 0
    /\ (ret.arg0 * ret.pre.totalSupply) \div ret.pre.reserve0
         # (ret.arg1 * ret.pre.totalSupply) \div ret.pre.reserve1
    /\ ret.val[1] * ret.pre.reserve0 < ret.arg0 * ret.pre.totalSupply

\* C10: after a successful swap reserve0 * reserve1 is at least what it was
\* before the swap.
C10_ProductNeverDecreases ==
    (ret.op = "swap" /\ ret.ok) =>
        pool.reserve0 * pool.reserve1 >= ret.pre.reserve0 * ret.pre.reserve1

C10_Witness ==
    /\ ret.op = "swap" /\ ret.ok /\ ret.val[1] > 0
    /\ pool.swapFee = 0
    /\ pool.reserve0 * pool.reserve1 > ret.pre.reserve0 * ret.pre.reserve1

----------------------------------------------------------------------------
(* Properties of the quote and of the route simulator *)

\* C5: for positive reserves and input, under every fee a pool can have,
\* getAmountOut returns less than reserveOut, and of two quotes on the same
\* reserves the one for the larger input is not the smaller.
C5_QuoteMonotoneAndBounded ==
    /\ \A i \in 1..Len(quotes) :
          (quotes[i].amountIn > 0 /\ quotes[i].reserveIn > 0 /\ quotes[i].reserveOut > 0)
          => (quotes[i].ok /\ quotes[i].amountOut < quotes[i].reserveOut)
    /\ (/\ Len(quotes) = 2
        /\ quotes[1].ok /\ quotes[2].ok
        /\ quotes[1].reserveIn = quotes[2].reserveIn
        /\ quotes[1].reserveOut = quotes[2].reserveOut
        /\ quotes[1].amountIn <= quotes[2].amountIn)
       => quotes[1].amountOut <= quotes[2].amountOut

C5_Witness ==
    /\ Len(quotes) = 2
    /\ quotes[1].ok /\ quotes[2].ok
    /\ quotes[1].reserveIn = quotes[2].reserveIn
    /\ quotes[1].reserveOut = quotes[2].reserveOut
    /\ quotes[1].amountIn < quotes[2].amountIn
    /\ quotes[1].amountOut < quotes[2].amountOut
    /\ quotes[2].amountOut = quotes[2].reserveOut - 1
    /\ pool.swapFee = 1000

NoPoolTwice(used) == \A i, j \in 1..Len(used) : i # j => used[i] # used[j]

\* C2: when a route has been traded on chain hop by hop, every hop through a
\* pool of its own, the simulator's amountOut for that route and amount is
\* what the last swap paid out; when a hop failed for zero input or a zero
\* reserve, the simulator's amountOut is 0.
C2_SimulatorMatchesPools ==
    /\ (sim.status = "done" /\ NoPoolTwice(sim.used))
          => sim.result.amountOut = sim.amount
    /\ (sim.status = "failed"
          /\ sim.err \in {"gPool: INSUFFICIENT_INPUT", "gPool: INSUFFICIENT_LIQUIDITY"})
          => sim.result.amountOut = 0

C2_Witness ==
    /\ sim.status = "done" /\ Len(sim.used) = 3 /\ NoPoolTwice(sim.used)
    /\ sim.amount > 0 /\ sim.result.amountOut = sim.amount
    /\ sim.chain[1].swapFee # sim.chain[2].swapFee
    /\ sim.route[1] = "A"

\* a hop of the route has no pool, or its pool has a zero reserve
Broken(POOLS, route) ==
    \E i \in 1..(Len(route) - 1) :
        LET k == FindPool(POOLS, route[i], route[i + 1]) IN
        k = 0 \/ POOLS[k].reserve0 = 0 \/ POOLS[k].reserve1 = 0

\* C14: calculateRouteProfit always answers; for a route with a hop without
\* pool or through a pool with a zero reserve the answer is amountOut = 0 and
\* viable = false; for any other route viable is true exactly when amountOut
\* is greater than amountIn; the pools are as they were before the call.
C14_RouteProfitTotal ==
    [][(sim.status = "idle" /\ sim'.status # "idle") =>
          /\ sim'.result.route = sim'.route /\ sim'.result.amountIn = sim'.amountIn
          /\ Broken(sim.POOLS, sim'.route)
                => (sim'.result.amountOut = 0 /\ ~sim'.result.viable)
          /\ ~Broken(sim.POOLS, sim'.route)
                => (sim'.result.viable <=> sim'.result.amountOut > sim'.amountIn)
          /\ sim'.POOLS = sim.POOLS /\ sim'.chain = sim.chain]_vars

C14_Witness ==
    /\ sim.status = "trading" /\ sim.hop = 2
    /\ sim.route = <<"a", "b", "c", "a">> /\ sim.amountIn = 10
    /\ sim.POOLS[1].reserve0 > 0 /\ sim.POOLS[2].reserve0 > 0
    /\ sim.POOLS[3].reserve0 = 0
    /\ sim.result.amountOut = 0 /\ ~sim.result.viable
    /\ sim.result.gasEstimate = 450000

----------------------------------------------------------------------------
(* Properties of the factory *)

\* the unordered token pair of a deployed pool
PairOf(f, p) == {f.code[p].token0, f.code[p].token1}

\* a pool for the unordered pair {a, b} exists in the storage f
PairExists(f, a, b) ==
    \E i \in 1..Len(f.allPools) : PairOf(f, f.allPools[i]) = {a, b}

\* C11: the factory never holds two pools for one unordered token pair;
\* createPool(a, b) fails when a pool for {a, b} exists in either argument
\* order, when a = b or when either is the zero address; a successful call
\* increases poolCount by one and makes getPool[min(a,b)][max(a,b)] the new
\* pool, whose token0 is below its token1.
C11_OnePoolPerPair ==
    /\ \A i, j \in 1..Len(factory.s.allPools) :
          i # j => PairOf(factory.s, factory.s.allPools[i]) # PairOf(factory.s, factory.s.allPools[j])
    /\ factory.last.op = "createPool" =>
          LET a == factory.last.token0
              b == factory.last.token1
              pre == factory.last.pre
              lo == IF a < b THEN a ELSE b
              hi == IF a < b THEN b ELSE a
          IN /\ (a = b \/ a = 0 \/ b = 0 \/ PairExists(pre, a, b)) => ~factory.last.ok
             /\ factory.last.ok =>
                   LET p == factory.last.val[1] IN
                   /\ poolCount(factory.s) = poolCount(pre) + 1
                   /\ p # 0
                   /\ \A i \in 1..Len(pre.allPools) : pre.allPools[i] # p
                   /\ factory.s.getPool[<<lo, hi>>] = p
                   /\ factory.s.code[p].token0 = lo /\ factory.s.code[p].token1 = hi
                   /\ factory.s.code[p].token0 < factory.s.code[p].token1
             /\ ~factory.last.ok => factory.s = pre

C11_Witness ==
    /\ factory.last.op = "createPool" /\ ~factory.last.ok
    /\ factory.last.err = "gSwapFactory: POOL_EXISTS"
    /\ factory.last.token0 > factory.last.token1
    /\ poolCount(factory.s) = 2
    /\ factory.s.code[factory.s.allPools[1]].swapFee # factory.s.code[factory.s.allPools[2]].swapFee

----------------------------------------------------------------------------
(* Properties of route discovery *)

Hops(route) == Len(route) - 1

AsSet(seq) == {seq[i] : i \in 1..Len(seq)}

\* the lower-case tokens of a pool set
TokensOf(POOLS) ==
    UNION {{toLowerCase(POOLS[k].token0), toLowerCase(POOLS[k].token1)} : k \in 1..Len(POOLS)}

\* a route whose first and last token is start, whose tokens in between are
\* distinct and differ from start, and whose consecutive tokens share a pool
IsSimpleCycle(POOLS, start, r) ==
    /\ Len(r) >= 2
    /\ r[1] = start /\ r[Len(r)] = start
    /\ \A i, j \in 2..(Len(r) - 1) : i # j => r[i] # r[j]
    /\ \A i \in 2..(Len(r) - 1) : r[i] # start
    /\ \A i \in 1..(Len(r) - 1) : FindPool(POOLS, r[i], r[i + 1]) # 0

\* the simple cycles through start of at least 3 and at most maxHops hops
SimpleCycles(POOLS, start, maxHops) ==
    LET T == TokensOf(POOLS)
        longest == Min(maxHops, Cardinality(T)) + 1
    IN UNION {{r \in [1..n -> T] : IsSimpleCycle(POOLS, start, r)} : n \in 4..longest}

IsTriangleABC(POOLS) ==
    /\ Len(POOLS) = 3
    /\ {{toLowerCase(POOLS[k].token0), toLowerCase(POOLS[k].token1)} : k \in 1..3}
          = {{"a", "b"}, {"b", "c"}, {"a", "c"}}

\* C12: on three tokens a, b, c with a pool for each pair, discovery from a
\* with maxHops = 4 returns the cycle a,b,c,a and its reverse a,c,b,a and
\* nothing else, in particular no cycle of fewer than 3 hops.
C12_TriangleRoutes ==
    \A i \in 1..Len(disc.answers) :
        LET q == disc.answers[i] IN
        (IsTriangleABC(disc.POOLS) /\ toLowerCase(q.startToken) = "a" /\ q.maxHops = 4) =>
            /\ AsSet(q.routes) = {<<"a", "b", "c", "a">>, <<"a", "c", "b", "a">>}
            /\ Len(q.routes) = 2
            /\ \A k \in 1..Len(q.routes) : Hops(q.routes[k]) >= 3

\* C13: for every pool set, start token and maxHops, discovery returns the
\* simple cycles through the start token of at least 3 and at most maxHops
\* hops, each once, and none of them is missing; the same query on the same
\* pool set gives the same routes in the same order.
C13_AllSimpleCycles ==
    /\ \A i \in 1..Len(disc.answers) :
          LET q == disc.answers[i] IN
          /\ AsSet(q.routes) = SimpleCycles(disc.POOLS, toLowerCase(q.startToken), q.maxHops)
          /\ \A k, m \in 1..Len(q.routes) : k # m => q.routes[k] # q.routes[m]
    /\ (Len(disc.answers) = 2
          /\ disc.answers[1].startToken = disc.answers[2].startToken
          /\ disc.answers[1].maxHops = disc.answers[2].maxHops)
       => disc.answers[1].routes = disc.answers[2].routes

----------------------------------------------------------------------------
\* The arbitrage agent

IdsOf(opps) == {opps[k].id : k \in 1..Len(opps)}
\* scan has collected the opportunities and no request has been made yet
JustScanned ==
    /\ agent.mode = "scan"
    /\ agent.idx = 0 \/ (agent.idx = 1 /\ agent.phase = "oracle" /\ agent.attempt = 1 /\ agent.made = 0)

\* C15: every opportunity findOpportunities returns is viable with net
\* profit (gross profit minus the estimated settlement cost) above zero,
\* an amountOut above its amountIn and a profitPercent of at least
\* minProfitPercent; and an evaluation that throws removes nothing but its
\* own route/amount pair from what is returned.
C15_OnlyViableReturned ==
    agent.mode = "scan" =>
        /\ \A k \in 1..Len(agent.all) :
              LET o == agent.all[k] IN
                /\ o.viable
                /\ o.netProfitUSD = o.profitUSD - o.gasCostUSD
                /\ o.netProfitUSD > 0
                /\ o.amountOut > o.amountIn
                /\ o.profitPercent >= agent.cfg.minProfitPercent
        /\ JustScanned =>
              IdsOf(agent.all)
                 = IdsOf(allOpportunities(agent.market, agent.cfg, 1, {})) \ agent.raising

\* a scan in which one evaluation threw, the floor turned down a pair with a
\* net profit, and others were returned
C15_Witness ==
    /\ JustScanned
    /\ agent.raising # {}
    /\ agent.raising \subseteq IdsOf(allOpportunities(agent.market, agent.cfg, 1, {}))
    /\ Len(agent.all) > 0
    /\ IdsOf(agent.all) # IdsOf(allOpportunities(agent.market,
                                                 [agent.cfg EXCEPT !.minProfitPercent = 10], 1,
                                                 agent.raising))

\* what is left of a sequence of opportunities when those of the queue are
\* taken out, one for one
RECURSIVE Without(_, _)
Without(opps, queue) ==
    IF queue = <<>> THEN opps
    ELSE LET hits == {k \in 1..Len(opps) : opps[k] = queue[1]}
             k == CHOOSE h \in hits : \A j \in hits : h <= j
         IN IF hits = {} THEN Without(opps, Tail(queue))
            ELSE Without(SubSeq(opps, 1, k - 1) \o SubSeq(opps, k + 1, Len(opps)), Tail(queue))

\* C16: in each scan cycle the opportunities handed to the oracle are the
\* top maxConcurrentOpportunities by net profit among all the viable
\* opportunities found from all start tokens, and no more than that many
\* oracle queries are made in the cycle.
C16_TopByNetProfit ==
    agent.mode = "scan" =>
        /\ Len(agent.queue) = Min(agent.cfg.maxConcurrentOpportunities, Len(agent.all))
        /\ IdsOf(agent.queue) \subseteq IdsOf(agent.all)
        /\ \A q \in 1..Len(agent.queue) :
              \A k \in 1..Len(Without(agent.all, agent.queue)) :
                 agent.queue[q].netProfitUSD >= Without(agent.all, agent.queue)[k].netProfitUSD
        /\ agent.queries <= agent.cfg.maxConcurrentOpportunities

\* the part of C16 the scan keeps: at most maxConcurrentOpportunities
\* queries in a cycle, made for the first opportunities of the list
C16_QueriesBounded ==
    agent.mode = "scan" =>
        /\ agent.queue = SubSeq(agent.all, 1, Min(agent.cfg.maxConcurrentOpportunities, Len(agent.all)))
        /\ agent.queries <= agent.cfg.maxConcurrentOpportunities

\* C17: executeArbitrage returns a failed result without preparing hops,
\* simulating settlement or advancing the sequence counter whenever the
\* decision's shouldExecute is false or its confidence is below 0.6 (0.59
\* is refused even with shouldExecute true); with shouldExecute true and a
\* confidence of 0.6 or more it goes on to settlement.
C17_RefusesBelowThreshold ==
    agent.exec.ran =>
        /\ (~agent.exec.decision.shouldExecute \/ agent.exec.decision.confidence < 60) =>
              /\ ~agent.exec.success
              /\ agent.exec.error # ""
              /\ ~agent.exec.prepared
              /\ ~agent.exec.settled
              /\ agent.exec.nonceAfter = agent.exec.nonceBefore
        /\ (agent.exec.decision.shouldExecute /\ agent.exec.decision.confidence >= 60) =>
              /\ agent.exec.prepared
              /\ agent.exec.settled

\* after a settlement that advanced the sequence counter, an approval with
\* confidence 0.59 has been refused
C17_Witness ==
    /\ agent.exec.ran
    /\ agent.exec.decision.shouldExecute
    /\ agent.exec.decision.confidence = 59
    /\ agent.exec.error = "Confidence too low"
    /\ agent.exec.nonceBefore = 1
    /\ agent.nonce = 1

\* C18: an opportunity that fails preflight (balance of the input token too
\* low, gas price above the ceiling, or profit percentage below the floor)
\* never reaches settlement: on every path by which the agent executes an
\* opportunity, scan and manualExecute alike, preflight is run first and a
\* failed preflight skips execution; and preflight reports every failing
\* reason.
C18_PreflightBeforeSettlement ==
    /\ agent.exec.ran =>
          /\ agent.exec.checks.ran
          /\ agent.exec.checks.passed
    /\ agent.exec.settled => preflightChecks(agent.exec.opportunity, agent.cfg).passed
    /\ agent.checks.ran =>
          LET o == Current(agent)
              reasons == {agent.checks.errors[k] : k \in 1..Len(agent.checks.errors)}
          IN /\ ("Insufficient balance" \in reasons) = (o.amountIn > getBalance.token)
             /\ ("Gas price too high" \in reasons) = (getGasPrice.gwei > agent.cfg.maxGasPrice)
             /\ ("Opportunity profit too low" \in reasons) = (o.profitPercent < 5)
             /\ agent.checks.passed = (reasons = {})

\* the part of C18 the code keeps: on the scan path nothing is executed
\* without a passed preflight, and preflight reports every failing reason
C18_ScanPathPreflighted ==
    /\ (agent.exec.ran /\ agent.exec.mode = "scan") =>
          /\ agent.exec.checks.ran
          /\ agent.exec.checks.passed
          /\ preflightChecks(agent.exec.opportunity, agent.cfg).passed
    /\ agent.checks.ran =>
          LET o == Current(agent)
              reasons == {agent.checks.errors[k] : k \in 1..Len(agent.checks.errors)}
          IN /\ ("Insufficient balance" \in reasons) = (o.amountIn > getBalance.token)
             /\ ("Gas price too high" \in reasons) = (getGasPrice.gwei > agent.cfg.maxGasPrice)
             /\ ("Opportunity profit too low" \in reasons) = (o.profitPercent < 5)
             /\ agent.checks.passed = (reasons = {})

\* C19: with autoExecute disabled no step of a scan cycle runs preflight or
\* settlement, and opportunitiesExecuted, totalProfit and the executor's
\* sequence counter stay as they are whatever the oracle decides; with
\* autoExecute enabled a scan cycle attempts settlement only for an
\* opportunity the oracle approved.
C19_AutoExecuteGate ==
    /\ [][(agent'.mode = "scan" /\ ~agent.cfg.autoExecute) =>
             /\ agent'.phase \notin {"preflight", "execute"}
             /\ agent'.checks.ran = FALSE
             /\ agent'.exec = agent.exec
             /\ agent'.status.opportunitiesExecuted = agent.status.opportunitiesExecuted
             /\ agent'.status.totalProfit = agent.status.totalProfit
             /\ agent'.nonce = agent.nonce]_vars
    /\ [](agent.mode = "scan" =>
             /\ agent.phase \in {"preflight", "execute"} =>
                   agent.cfg.autoExecute /\ agent.decision.shouldExecute
             /\ (agent.exec.ran /\ agent.exec.mode = "scan") =>
                   agent.cfg.autoExecute /\ agent.exec.decision.shouldExecute)

\* a scan with autoExecute disabled has put three opportunities to the
\* oracle, the last approved with confidence 0.6, and nothing was executed
C19_Witness ==
    /\ ~agent.cfg.autoExecute
    /\ agent.mode = "scan"
    /\ agent.phase = "idle"
    /\ agent.queries = 3
    /\ agent.analyzed.decision.shouldExecute
    /\ agent.analyzed.decision.confidence = 60
    /\ ~agent.exec.ran
    /\ agent.nonce = 0

\* C20: analyzeOpportunity makes at most 3 requests per call whatever the
\* failures are (timeout, rate limit, API error, invalid JSON); when all 3
\* fail it returns the default decision, shouldExecute false and confidence
\* 0 with a reason; a 4th request is never made, and the call always ends
\* with a decision.
C20_BoundedRetries ==
    /\ [](/\ agent.made <= 3
          /\ agent.analyzed.made <= 3
          /\ agent.analyzed.failed = 3 =>
                /\ ~agent.analyzed.decision.shouldExecute
                /\ agent.analyzed.decision.confidence = 0
                /\ agent.analyzed.decision.reasoning # ""
                /\ agent.analyzed.decision = DefaultDecision)
    /\ \A i \in 1..3 :
          (agent.phase = "oracle" /\ agent.idx = i)
              ~> (agent.phase # "oracle" \/ agent.idx # i)

\* three requests have failed, a rate limit among them, and the default
\* decision came back
C20_Witness ==
    /\ agent.analyzed.made = 3
    /\ agent.analyzed.failed = 3
    /\ agent.analyzed.decision = DefaultDecision
    /\ agent.phase # "oracle"

----------------------------------------------------------------------------
\* Reserve-update notifications

SyncsOf(events) == {k \in 1..Len(events) : events[k].name = "Sync"}

\* C29: every successful addLiquidity, removeLiquidity and swap emits exactly
\* one Sync event whose two values are the pool's reserves after the
\* operation; a failed operation emits none; and the reserves never change
\* without such an event.
C29_SyncOnEveryUpdate ==
    /\ [](/\ (ret.op # "none" /\ ret.ok) =>
                /\ Cardinality(SyncsOf(ret.events)) = 1
                /\ \A k \in SyncsOf(ret.events) :
                      ret.events[k] = Sync(pool.reserve0, pool.reserve1)
          /\ (ret.op # "none" /\ ~ret.ok) => SyncsOf(ret.events) = {})
    /\ [][(pool'.reserve0 # pool.reserve0 \/ pool'.reserve1 # pool.reserve1) =>
             /\ ret'.op \in {"addLiquidity", "removeLiquidity", "swap"}
             /\ ret'.ok
             /\ ret' # ret
             /\ \E k \in SyncsOf(ret'.events) :
                   ret'.events[k] = Sync(pool'.reserve0, pool'.reserve1)]_vars

\* a swap of token1 has gone through, announced with the reserves it left
C29_Witness ==
    /\ ret.op = "swap" /\ ret.ok /\ ret.tokenIn = pool.token1
    /\ pool.reserve0 # ret.pre.reserve0
    /\ pool.reserve1 # ret.pre.reserve1
    /\ Sync(pool.reserve0, pool.reserve1) \in {ret.events[k] : k \in 1..Len(ret.events)}

----------------------------------------------------------------------------
\* The decision read from a response

ValuesOf(response, key) ==
    {trim(response[k].value) : k \in {j \in 1..Len(response) : response[j].key = key}}

\* a decimal number and nothing else: an optional sign, digits, at most one
\* point, at least one digit
IsDecimalText(text) ==
    /\ \A k \in 1..Len(text) : isDigit(text[k]) \/ text[k] = "." \/ (k = 1 /\ text[k] = "-")
    /\ Cardinality({k \in 1..Len(text) : text[k] = "."}) <= 1
    /\ \E k \in 1..Len(text) : isDigit(text[k])

\* a response that parses into a well-formed decision: one SHOULD_EXECUTE
\* line saying true or false and one CONFIDENCE line holding a number
WellFormed(response) ==
    /\ Cardinality(ValuesOf(response, "SHOULD_EXECUTE")) = 1
    /\ \A text \in ValuesOf(response, "SHOULD_EXECUTE") :
          toLowerCaseText(text) \in {<<"t", "r", "u", "e">>, <<"f", "a", "l", "s", "e">>}
    /\ Cardinality(ValuesOf(response, "CONFIDENCE")) = 1
    /\ \A text \in ValuesOf(response, "CONFIDENCE") : IsDecimalText(text)

\* C21: when the response does not parse into a well-formed decision (it is
\* empty, or its SHOULD_EXECUTE or CONFIDENCE line is missing or malformed),
\* analyzeOpportunity returns shouldExecute = false and confidence = 0.
C21_MalformedGivesDefault ==
    (oracle.analyzed /\ ~oracle.threw /\ ~WellFormed(oracle.response)) =>
        /\ ~oracle.decision.shouldExecute
        /\ oracle.decision.confidence = 0

\* C22: every decision analyzeOpportunity returns has a confidence within
\* [0, 1] (0 to 100 hundredths), whatever the CONFIDENCE line says.
C22_ConfidenceInUnitInterval ==
    oracle.analyzed => (0 <= oracle.decision.confidence /\ oracle.decision.confidence <= 100)

----------------------------------------------------------------------------
\* The polling loop

\* the step is a timer's callback starting a cycle
TimerStartsCycle == loop'.ticks > loop.ticks
\* the step is a call of start()
StartCalled == loop'.starts > loop.starts
\* the step is an exception caught in scan()
CycleThrows == loop'.last.op = "throw" /\ loop'.last # loop.last
\* the cycles of start() calls that the step ends
InitialCyclesEnded ==
    {s \in loop.scans : s.origin = "start" /\ \A t \in loop'.scans : t.id # s.id}

\* C23: after stop() on a running agent (isRunning is false from then until
\* the next start()), no timer starts a scan cycle.
C23_NoCycleAfterStop ==
    [][TimerStartsCycle => loop.isRunning]_vars

\* C24: a timer never starts a scan cycle while an earlier cycle is in flight.
C24_CyclesNeverOverlap ==
    [][TimerStartsCycle => loop.scans = {}]_vars

\* C25: an exception inside a scan cycle is caught there and recorded as one
\* more entry of status.errors; isRunning and the armed timers stay as they
\* are; start() awaiting the cycle goes on to arm its timer; and where a timer
\* is armed its next tick starts a new cycle.
C25_ScanExceptionCaught ==
    /\ [][CycleThrows =>
            /\ loop'.errors = loop.errors + 1
            /\ loop'.isRunning = loop.isRunning
            /\ loop.timers \subseteq loop'.timers
            /\ \A s \in loop.scans : s.id = loop'.last.scan => s \notin loop'.scans
            /\ Cardinality(loop'.timers \ loop.timers) = Cardinality(InitialCyclesEnded)]_vars
    /\ []((loop.last.op = "throw" /\ loop.timers # {} /\ loop.starts + loop.ticks < MaxCalls) =>
             ENABLED (\E timer \in loop.timers : TimerFires(timer)))

\* a cycle has failed, the agent is still running and its timer has started
\* the next cycle
C25_Witness ==
    /\ loop.errors >= 1
    /\ loop.isRunning
    /\ loop.intervalId \in loop.timers
    /\ loop.last.op = "tick"

\* a limit on status.errors, put below the number of cycles that may fail in
\* one run of the loop: the source names none
ErrorLimit == MaxCalls - 1

\* C26: status.errors never holds more than a fixed number of entries.
C26_ErrorsBounded ==
    loop.errors <= ErrorLimit

\* C30: start() on an agent that is not running sets isRunning and begins
\* one scan cycle without arming a timer; the timer is armed when that cycle
\* ends, and only then; the cycle does end; start() on a running agent
\* changes nothing; and all this holds again after stop().
C30_StartRunsOneCycleThenArms ==
    /\ [][/\ (StartCalled /\ ~loop.isRunning) =>
                /\ loop'.isRunning
                /\ loop'.scans = loop.scans \cup
                      {[id |-> loop.started + 1, origin |-> "start", phase |-> "discovery"]}
                /\ loop'.started = loop.started + 1
                /\ loop'.timers = loop.timers
          /\ (StartCalled /\ loop.isRunning) =>
                /\ loop'.isRunning
                /\ loop'.scans = loop.scans
                /\ loop'.started = loop.started
                /\ loop'.timers = loop.timers
                /\ loop'.intervalId = loop.intervalId
          /\ (\E s \in loop'.scans \ loop.scans : s.origin = "start" /\ s.phase = "discovery")
                => StartCalled
          /\ Cardinality(loop'.timers \ loop.timers) = Cardinality(InitialCyclesEnded)
          /\ Cardinality(InitialCyclesEnded) <= 1]_vars
    /\ (\E s \in loop.scans : s.origin = "start") ~> (\A s \in loop.scans : s.origin # "start")

\* the agent was started, stopped and started again, and the second start()
\* has armed its timer after its cycle returned
C30_Witness ==
    /\ loop.starts = 2
    /\ loop.started >= 2
    /\ loop.isRunning
    /\ loop.last.op = "return"
    /\ loop.intervalId \in loop.timers
    /\ \A s \in loop.scans : s.origin # "start"

----------------------------------------------------------------------------
\* The executor called on its own

\* C27: executeArbitrage returns a TransactionResult whatever it is handed:
\* no call ends in an exception, also when the pool list lacks the pool of a
\* hop; a failure is a result with success = false and an error text.
C27_ExecuteAlwaysReturns ==
    agent.exec.ran =>
        /\ agent.exec.error # "thrown: No pool found"
        /\ ~agent.exec.success => agent.exec.error # ""

----------------------------------------------------------------------------
\* The order of the opportunities found

\* the place of opportunity o in the order the evaluations were made in
PlaceIn(evaluations, o) ==
    CHOOSE k \in 1..Len(evaluations) : evaluations[k].id = o.id

\* x is to come before y: higher net profit; when equal, fewer hops; when
\* equal again, evaluated earlier
ComesBefore(evaluations, x, y) ==
    \/ x.netProfitUSD > y.netProfitUSD
    \/ /\ x.netProfitUSD = y.netProfitUSD
       /\ \/ Len(x.route) < Len(y.route)
          \/ /\ Len(x.route) = Len(y.route)
             /\ PlaceIn(evaluations, x) < PlaceIn(evaluations, y)

Ordered(evaluations, found) ==
    \A i, j \in 1..Len(found) : i < j => ComesBefore(evaluations, found[i], found[j])

----------------------------------------------------------------------------
\* The executor's sequence counter

\* C31: a successful executeArbitrage advances the nonce by exactly one and
\* reports a sequence marker above that of every earlier success; a refused
\* or failed one leaves the nonce as it is; so the nonce always equals the
\* number of successful executions.
C31_NonceCountsSuccesses ==
    /\ [](agent.nonce = agent.succeeded)
    /\ [][agent'.exec # agent.exec =>
            /\ agent'.exec.nonceBefore = agent.nonce
            /\ agent'.exec.nonceAfter = agent'.nonce
            /\ agent'.exec.success =>
                  /\ agent'.nonce = agent.nonce + 1
                  /\ agent'.exec.blockNumber = 1000000 + agent'.nonce
                  /\ (agent.exec.ran /\ agent.exec.blockNumber # 0) =>
                        agent'.exec.blockNumber > agent.exec.blockNumber
            /\ ~agent'.exec.success => agent'.nonce = agent.nonce]_vars

\* the third opportunity of a cycle has settled as the second success, one of
\* the first two having been refused or having failed
C31_Witness ==
    /\ agent.exec.success
    /\ agent.nonce = 2
    /\ agent.status.opportunitiesExecuted = 2
    /\ agent.queries = 3

----------------------------------------------------------------------------
\* Release of the re-entrancy lock

\* C32: when no operation is executing the lock is free, whatever way the
\* last operation ended, and no call made then is rejected with the
\* re-entrancy error.
C32_LockNeverLeftHeld ==
    /\ call.op = "none" => ~pool.locked
    /\ ret.op # "none" => ret.err # "gPool: REENTRANT"

\* a withdrawal has failed in its token transfer after the lock was taken,
\* and the lock is free
C32_Witness ==
    /\ call.op = "none" /\ ~pool.locked
    /\ ret.op = "removeLiquidity" /\ ~ret.ok /\ ret.err = "gPool: TRANSFER_FAILED"
    /\ pool.totalSupply > 0

----------------------------------------------------------------------------
\* Shares and the reserves behind them

SharesMatchReserves(s) ==
    /\ s.totalSupply = 0 <=> (s.reserve0 = 0 /\ s.reserve1 = 0)
    /\ s.totalSupply > 0 <=> (s.reserve0 > 0 /\ s.reserve1 > 0)

C36_SharesMatchReservesBetweenCalls ==
    call.op = "none" => SharesMatchReserves(pool)

----------------------------------------------------------------------------
\* The tokens behind the reserves

\* C37: with MockERC20 tokens the pool holds at least reserve0 of token0 and
\* reserve1 of token1, and no payout of removeLiquidity or swap fails for
\* want of tokens.
C37_BalancesCoverReserves ==
    /\ erc20.balance0[PoolAccount] >= pool.reserve0
    /\ erc20.balance1[PoolAccount] >= pool.reserve1
    /\ erc20.last.err # "gPool: TRANSFER_FAILED"

\* MockERC20 minted to the deployer only: the tokens of either kind add up to
\* what was minted, wherever they are
C37_TokensConserved ==
    /\ erc20.balance0[PoolAccount] + erc20.balance0["u1"] + erc20.balance0["u2"] = MaxReserve
    /\ erc20.balance1[PoolAccount] + erc20.balance1["u1"] + erc20.balance1["u2"] = MaxReserve

C37_PayoutFails ==
    /\ erc20.last.op = "removeLiquidity"
    /\ erc20.last.err = "gPool: TRANSFER_FAILED"
    /\ erc20.balance0[PoolAccount] < pool.reserve0

----------------------------------------------------------------------------
\* The poll timers of the agent

\* C38: at most one poll timer is armed at a time, and a timer is armed only
\* while isRunning, whatever the interleaving of start(), stop() and the
\* scans in flight.
C38_OneTimerOnlyWhileRunning ==
    /\ Cardinality(loop.timers) <= 1
    /\ loop.timers # {} => loop.isRunning

\* a timer armed after stop(): no later stop() gets past its isRunning test
C38_TimerOutlivesStop ==
    /\ ~loop.isRunning
    /\ loop.timers # {}

\* two timers armed at once, one of them no longer held in intervalId
C38_TwoTimers ==
    /\ Cardinality(loop.timers) = 2
    /\ \E t \in loop.timers : t # loop.intervalId

----------------------------------------------------------------------------
\* The indexer's server against the pools it indexes

\* what the pool on chain gives for amountIn of tokenIn: its getAmountOut on
\* its reserves, with its own fee; 0 where getAmountOut reverts
PoolQuote(s, tokenIn, amountIn) ==
    LET q == IF tokenIn = s.token0 THEN getAmountOut(s, amountIn, s.reserve0, s.reserve1)
             ELSE getAmountOut(s, amountIn, s.reserve1, s.reserve0)
    IN IF q.ok THEN q.val[1] ELSE 0

\* the indexer's server was asked about a route of one hop that has a pool,
\* and its database answered
OneHopIndexed ==
    /\ sim.status = "indexed" /\ sim.err = ""
    /\ Len(sim.route) = 2
    /\ ChainPool(sim.chain, sim.route[1], sim.route[2]) # 0

\* C34: the output calculateRouteProfit of the indexer's server gives for a
\* hop equals the getAmountOut of that hop's pool on the same reserves,
\* whatever fee the factory gave the pool.
C34_IndexerHopMatchesPool ==
    OneHopIndexed =>
        sim.result.amountOut =
            PoolQuote(sim.chain[ChainPool(sim.chain, sim.route[1], sim.route[2])],
                      toLowerCase(sim.route[1]), sim.amountIn)

\* the same for the pools that have the fee the indexer assumes, 30 bps
C34_IndexerHopMatchesPoolAtDefaultFee ==
    (OneHopIndexed /\ sim.chain[ChainPool(sim.chain, sim.route[1], sim.route[2])].swapFee = 30) =>
        sim.result.amountOut =
            PoolQuote(sim.chain[ChainPool(sim.chain, sim.route[1], sim.route[2])],
                      toLowerCase(sim.route[1]), sim.amountIn)

\* a hop through a pool of 1000 bps that the indexer's server prices at 30
C34_FeeIgnored ==
    /\ OneHopIndexed
    /\ sim.chain[2].swapFee = 1000 /\ sim.POOLS[2].swapFee = 1000
    /\ sim.route = <<"c", "b">> /\ sim.amountIn = 50
    /\ sim.result.amountOut > PoolQuote(sim.chain[2], "c", 50)

\* C33: on pools a-b, b-c and c-a the indexer's arbitrageRoutes from a with
\* maxHops = 4 returns the route a,b,c,a, a cycle that closes back on the
\* start token.
C33_IndexerFindsTriangle ==
    (/\ disc.indexed.asked
     /\ IsTriangleABC(disc.POOLS)
     /\ toLowerCase(disc.indexed.startToken) = "a"
     /\ disc.indexed.maxHops = 4)
        => \E k \in 1..Len(disc.indexed.routes) : disc.indexed.routes[k] = <<"a", "b", "c", "a">>

\* whatever the pools, the start token and maxHops, the indexer's
\* arbitrageRoutes returns no route
C33_IndexerReturnsNoRoute == disc.indexed.routes = <<>>

\* the query of the claim, answered with no route
C33_TriangleMissed ==
    /\ disc.indexed.asked /\ IsTriangleABC(disc.POOLS)
    /\ disc.indexed.startToken = "a" /\ disc.indexed.maxHops = 4
    /\ disc.indexed.routes = <<>>
    /\ arbitrageRoutes(disc.POOLS, "a", 4) # <<>>
----------------------------------------------------------------------------
\* The indexer's store against the chain

\* the pools created on chain that have token t
PoolsWith(t) == {p \in indexer.created : toLowerCase(Token0Of[p]) = t \/ toLowerCase(Token1Of[p]) = t}

====
